---- MODULE Spec2Model ----
(***************************************************************************)
(* SecureMe host-inventory collectors (src/utils): the probe chains of the *)
(* software, port and firmware readers on Windows, Linux and macOS.        *)
(*                                                                         *)
(* One behaviour is one call of a domain's collection function             *)
(* (get_installed_software / get_listening_ports / get_firmware_info),     *)
(* optionally continued by the domain's summary function.  Every           *)
(* subprocess.run call is a probe: it is spawned, and then either the      *)
(* child exits (status 0 and some output, or a non-zero status) or the     *)
(* timeout expires; a missing executable fails at the spawn itself.        *)
(* The Python code between two subprocess.run calls is sequential and      *)
(* deterministic, so it is one atomic step of the model.                   *)
(*                                                                         *)
(* Strings are TLA+ strings.  A tool's standard output is a sequence of    *)
(* lines and a line is the sequence of its fields under the separator the  *)
(* parser of that tool splits on.  A Python dict is a sequence of          *)
(* <<key, value>> pairs in insertion order.                                *)
(***************************************************************************)
EXTENDS Integers, Sequences, FiniteSets, TLC

VARIABLES
    system,     \* platform.system().lower()
    domain,     \* which collection function is called
    pc,         \* "start" | "run" | "done" | "summarized"
    pos,        \* index into the chain of the probe to run next
    enrich,     \* index of the port record the tasklist loop looks up next
    inflight,   \* the child processes spawned and not yet reaped
    spawned,    \* the subprocess.run calls made so far, in order
    diag,       \* the failure messages printed so far, in order
    log,        \* per completed probe: its outcome and its record count
    last,       \* the probe completed last: exact outcome and parsed records
    local,      \* the dict local to the running reader function
    result,     \* all_software / port_info / firmware_info
    ret,        \* what the caller has received
    summary,    \* what the domain's summary function returns
    merge,      \* two record sets and their merges in both orders
    parse       \* one parser, its input, and the records it stores

vars == <<system, domain, pc, pos, enrich, inflight, spawned, diag, log, last,
          local, result, ret, summary, merge, parse>>

(***************************************************************************)
(* Python dict                                                             *)
(***************************************************************************)
Keys(d) == {d[i][1] : i \in DOMAIN d}

Has(d, k) == \E i \in DOMAIN d : d[i][1] = k

Get(d, k) == d[CHOOSE i \in DOMAIN d : d[i][1] = k][2]

\* how many entries of d carry key k
Count(d, k) == Cardinality({i \in DOMAIN d : d[i][1] = k})

\* a list that appends a pair on every store, instead of a dict
DictSetAppend(d, k, v) == Append(d, <<k, v>>)

\* d[k] = v
DictSet(d, k, v) ==
    IF Has(d, k)
    THEN [i \in DOMAIN d |-> IF d[i][1] = k THEN <<k, v>> ELSE d[i]]
    ELSE Append(d, <<k, v>>)

\* if k not in d: d[k] = v, written as an unconditional store
GuardedSetOverwrite(d, k, v) == DictSet(d, k, v)

\* the guard also lets a stored 'Unknown' be replaced
GuardedSetBackfill(d, k, v) ==
    IF Has(d, k) /\ Get(d, k) # "Unknown" THEN d ELSE DictSet(d, k, v)

\* if k not in d: d[k] = v
GuardedSet(d, k, v) == IF Has(d, k) THEN d ELSE DictSet(d, k, v)

RECURSIVE UpdateFrom(_, _, _)
UpdateFrom(d, e, i) ==
    IF i > Len(e) THEN d
    ELSE UpdateFrom(DictSet(d, e[i][1], e[i][2]), e, i + 1)

\* d = e in place of d.update(e)
UpdateAssign(d, e) == e

\* d.update(e) where only the keys d lacks are stored
RECURSIVE UpdateKeepFrom(_, _, _)
UpdateKeepFrom(d, e, i) ==
    IF i > Len(e) THEN d
    ELSE UpdateKeepFrom(GuardedSet(d, e[i][1], e[i][2]), e, i + 1)

UpdateKeep(d, e) == UpdateKeepFrom(d, e, 1)

\* d.update(e) that leaves the keys d already holds as they are
UpdateFirstWins(d, e) == UpdateKeepFrom(d, e, 1)

\* d.update(e)
Update(d, e) == UpdateFrom(d, e, 1)

\* the mapping a dict denotes (dict equality ignores insertion order)
AsMap(d) == {<<d[i][1], d[i][2]>> : i \in DOMAIN d}

(***************************************************************************)
(* Python str                                                              *)
(***************************************************************************)
Unknown == "Unknown"

\* the package names the tools of the model report, already stripped
NamePool == {"curl", "vim", "git", "requests", "Python: requests",
             "Snap: curl", "Homebrew: curl"}

\* the versions they report
VersionPool == {"1.0", "2.0"}

\* s.strip(): the pools' strings carry at most one blank on either side
Strip(s) ==
    IF \E t \in NamePool \cup VersionPool :
           s \in {" " \o t, t \o " ", " " \o t \o " "}
    THEN CHOOSE t \in NamePool \cup VersionPool :
           s \in {" " \o t, t \o " ", " " \o t \o " "}
    ELSE IF s = " " THEN "" ELSE s

\* ' '.join(fields[i:])
RECURSIVE JoinFrom(_, _, _)
JoinFrom(fields, i, sep) ==
    IF i > Len(fields) THEN ""
    ELSE IF i = Len(fields) THEN fields[i]
    ELSE fields[i] \o sep \o JoinFrom(fields, i + 1, sep)

\* lines[n:]
Drop(lines, n) ==
    IF Len(lines) <= n THEN <<>> ELSE SubSeq(lines, n + 1, Len(lines))

(***************************************************************************)
(* Tool output                                                             *)
(***************************************************************************)
\* dict.get(key) of a decoded JSON object when the key is absent
None == "<None>"

\* a decoded JSON value that is not an object
IsDict(item) == "scalar" \notin DOMAIN item

\* item.get(f, default)
JGet(item, f, default) == IF f \in DOMAIN item THEN item[f] ELSE default

\* x and isinstance(x, str)
TruthyStr(x) == x # None /\ x # ""

\* the objects a JSON payload holds: a list's items, or the bare object
JsonItems(raw) ==
    IF raw.t = "list" THEN raw.items
    ELSE IF raw.t = "dict" THEN <<raw.obj>>
    ELSE <<>>

\* an argument of str.isdigit / of the regex class \d+
IsDigits(s) == s \in {"497799835", "409183694"}

(***************************************************************************)
(* Linux package managers: src/utils/software_reader_linux.py              *)
(***************************************************************************)
\* line.startswith('ii'), for the status columns dpkg -l prints: the third
\* letter, when there is one, is the error flag
StartsWithIi(tok) == tok \in {"ii", "iiR"}

\* the status column is not looked at
DpkgLineAnyStatus(line, acc) ==
    IF Len(line) >= 3 THEN DictSet(acc, line[2], line[3]) ELSE acc

DpkgLine(line, acc) ==
    IF Len(line) >= 1 /\ StartsWithIi(line[1]) /\ Len(line) >= 3
    THEN DictSet(acc, line[2], line[3])
    ELSE acc

\* the fields of a line are the groups of ^(.+)-([^-]+)-([^-]+)\.(.+)$
RpmLine(line, acc) ==
    IF Len(line) = 4 /\ \A i \in 1..4 : line[i] # ""
    THEN DictSet(acc, line[1], line[2] \o "-" \o line[3])
    ELSE acc

\* the fields of a line are line.split(' ', 1)
PacmanLine(line, acc) ==
    IF Len(line) = 2 THEN DictSet(acc, line[1], line[2]) ELSE acc

\* the fields of a line are line.split(' ')[0].split('-')
ApkLine(line, acc) ==
    IF Len(line) >= 1 /\ line[1] # "WARNING" /\ Len(line) >= 2
    THEN LET name == JoinFrom(SubSeq(line, 1, Len(line) - 2), 1, "-")
             version == JoinFrom(SubSeq(line, Len(line) - 1, Len(line)), 1, "-")
         IN  IF name # "" THEN DictSet(acc, name, version) ELSE acc
    ELSE acc

\* the fields of a line are [p.strip() for p in line.split('|')]
ZypperLine(line, acc) ==
    IF Len(line) >= 2 /\ line[1] # "S" /\ Len(line) >= 3
       /\ line[2] # "" /\ line[3] # ""
    THEN DictSet(acc, line[2], line[3])
    ELSE acc

\* the fields of a line are the groups of ^(.+)/(.+)-([^-]+)$
PortageLine(line, acc) ==
    IF Len(line) = 3 /\ \A i \in 1..3 : line[i] # ""
    THEN DictSet(acc, line[1] \o "/" \o line[2], line[3])
    ELSE acc

\* snap list, pip list: the fields of a line are line.split()
PrefixedLine(prefix, line, acc) ==
    IF Len(line) >= 2 THEN DictSet(acc, prefix \o line[1], line[2]) ELSE acc

\* the fields of a line are line.split('\t')
FlatpakLine(line, acc) ==
    IF Len(line) >= 2 /\ Strip(line[1]) # "" /\ Strip(line[2]) # ""
    THEN DictSet(acc, "Flatpak: " \o Strip(line[1]), Strip(line[2]))
    ELSE acc

(***************************************************************************)
(* Windows: src/utils/software_reader_windows.py                           *)
(***************************************************************************)
\* the fields of a line are line.split(',')
WmicLine(line, acc) ==
    IF Len(line) >= 3 /\ Strip(line[2]) # "" /\ Strip(line[3]) # ""
    THEN DictSet(acc, Strip(line[2]), Strip(line[3]))
    ELSE acc

\* version.strip() if version and isinstance(version, str) else 'Unknown'
VersionOf(v) == IF TruthyStr(v) THEN Strip(v) ELSE Unknown

RegistryItem(item, acc) ==
    IF IsDict(item) /\ TruthyStr(JGet(item, "DisplayName", None))
    THEN LET name == Strip(JGet(item, "DisplayName", None))
         IN  IF name # ""
             THEN GuardedSet(acc, name, VersionOf(JGet(item, "DisplayVersion", None)))
             ELSE acc
    ELSE acc

GetPackageItem(item, acc) ==
    IF IsDict(item) /\ TruthyStr(JGet(item, "Name", None))
    THEN LET name == Strip(JGet(item, "Name", None))
             source == JGet(item, "Source", "")
             display_name == IF source # "" /\ source # None
                             THEN name \o " (" \o source \o ")" ELSE name
         IN  GuardedSet(acc, display_name, VersionOf(JGet(item, "Version", None)))
    ELSE acc

AppxItem(item, acc) ==
    IF IsDict(item) /\ TruthyStr(JGet(item, "Name", None))
    THEN GuardedSet(acc, "Store: " \o Strip(JGet(item, "Name", None)),
                    VersionOf(JGet(item, "Version", None)))
    ELSE acc

(***************************************************************************)
(* macOS: src/utils/software_reader_macos.py                               *)
(***************************************************************************)
\* a plist line is <<"key", k>>, <<"string", s>> or <<"other">>;
\* re.search(r'<string>(.+)</string>', lines[i + 1]) finds a match
StringAfter(lines, i) ==
    i + 1 <= Len(lines) /\ Len(lines[i + 1]) = 2
    /\ lines[i + 1][1] = "string" /\ lines[i + 1][2] # ""

IsKey(line, k) == Len(line) = 2 /\ line[1] = "key" /\ line[2] = k

\* the scan with the pending name kept after a record is written
RECURSIVE PlistScanKeepsName(_, _, _, _)
PlistScanKeepsName(lines, i, cur, acc) ==
    IF i > Len(lines) THEN acc
    ELSE IF IsKey(lines[i], "_name")
    THEN PlistScanKeepsName(lines, i + 1,
                   IF StringAfter(lines, i) THEN lines[i + 1][2] ELSE cur, acc)
    ELSE IF IsKey(lines[i], "version") /\ cur # None
    THEN IF StringAfter(lines, i)
         THEN PlistScanKeepsName(lines, i + 1, cur,
                                 DictSet(acc, cur, lines[i + 1][2]))
         ELSE PlistScanKeepsName(lines, i + 1, cur, acc)
    ELSE PlistScanKeepsName(lines, i + 1, cur, acc)

\* the scan of get_macos_applications: cur is current_app (None when unset)
RECURSIVE PlistScan(_, _, _, _)
PlistScan(lines, i, cur, acc) ==
    IF i > Len(lines) THEN acc
    ELSE IF IsKey(lines[i], "_name")
    THEN PlistScan(lines, i + 1,
                   IF StringAfter(lines, i) THEN lines[i + 1][2] ELSE cur, acc)
    ELSE IF IsKey(lines[i], "version") /\ cur # None
    THEN IF StringAfter(lines, i)
         THEN PlistScan(lines, i + 1, None, DictSet(acc, cur, lines[i + 1][2]))
         ELSE PlistScan(lines, i + 1, cur, acc)
    ELSE PlistScan(lines, i + 1, cur, acc)

\* brew list --versions: the fields of a line are line.split(' ', 1)
BrewLine(line, acc) ==
    IF Len(line) >= 2 THEN DictSet(acc, "Homebrew: " \o line[1], line[2]) ELSE acc

BrewCaskLine(line, acc) ==
    IF Len(line) >= 2 THEN DictSet(acc, "Homebrew Cask: " \o line[1], line[2])
    ELSE IF Len(line) = 1 THEN DictSet(acc, "Homebrew Cask: " \o line[1], Unknown)
    ELSE acc

\* the fields of a line are name, "@", version when ^(\S+)\s+@([^\s+]+) matches
MacPortsLine(line, acc) ==
    IF Len(line) >= 3 /\ line[2] = "@" /\ line[3] # ""
    THEN DictSet(acc, "MacPorts: " \o line[1], line[3])
    ELSE acc

\* the fields of a line are the groups of ^(\d+)\s+(.+?)\s+\(([^)]+)\)$
MasLine(line, acc) ==
    IF Len(line) = 3 /\ IsDigits(line[1]) /\ line[2] # "" /\ line[3] # ""
    THEN DictSet(acc, "App Store: " \o line[2], line[3])
    ELSE acc

(***************************************************************************)
(* Port probes: src/utils/port_listener.py                                 *)
(***************************************************************************)
\* the addresses, ports, process ids and process names of the model's hosts
AddrPool == {"0.0.0.0", "127.0.0.1", "*"}
PortNums == {22, 8080}
PortStrs == {ToString(n) : n \in PortNums} \cup {"*"}
PidPool == {"4", "812"}
ProcPool == {"sshd", "java"}

\* sep in token, for a token that is an address, sep and a port
HasSep(tok, sep) ==
    \E a \in AddrPool, b \in PortStrs : tok = a \o sep \o b

\* token.rsplit(sep, 1)
RSplit(tok, sep) ==
    CHOOSE ab \in AddrPool \X PortStrs : tok = ab[1] \o sep \o ab[2]

\* int(s) raises ValueError
IsInt(s) == \E n \in PortNums : ToString(n) = s

\* int(s)
IntOf(s) == CHOOSE n \in PortNums : ToString(n) = s

\* w in line, for the words the parsers look for
Containing(w) ==
    CASE w = "LISTEN" -> {"LISTEN", "LISTENING", "(LISTEN)"}
      [] w = "LISTENING" -> {"LISTENING"}
      [] w = "ESTABLISHED" -> {"ESTABLISHED"}
      [] w = "UNCONN" -> {"UNCONN"}
      [] w = "udp" -> {"udp", "udp6", "UDP"}
      [] OTHER -> {w}

InLine(line, w) == \E i \in DOMAIN line : line[i] \in Containing(w)

PortRecord(protocol, port, address, state, pid, process) ==
    [Protocol |-> protocol, Port |-> port, LocalAddress |-> address,
     State |-> state, PID |-> pid, Process |-> process]

\* netstat -ano, every accepted line stored over the record of its key
WinNetstatLineLastWins(line, acc) ==
    IF (InLine(line, "LISTENING") \/ InLine(line, "ESTABLISHED"))
       /\ Len(line) >= 5 /\ HasSep(line[2], ":")
       /\ IsInt(RSplit(line[2], ":")[2])
    THEN LET ip == RSplit(line[2], ":")[1]
             port_num == IntOf(RSplit(line[2], ":")[2])
             pid == IF line[5] # "0" THEN line[5] ELSE Unknown
             key == line[1] \o ":" \o ToString(port_num)
         IN  DictSet(acc, key,
                     PortRecord(line[1], port_num, ip, line[4], pid, Unknown))
    ELSE acc

\* netstat -ano
WinNetstatLine(line, acc) ==
    IF (InLine(line, "LISTENING") \/ InLine(line, "ESTABLISHED"))
       /\ Len(line) >= 5 /\ HasSep(line[2], ":")
       /\ IsInt(RSplit(line[2], ":")[2])
    THEN LET ip == RSplit(line[2], ":")[1]
             port_num == IntOf(RSplit(line[2], ":")[2])
             pid == IF line[5] # "0" THEN line[5] ELSE Unknown
             key == line[1] \o ":" \o ToString(port_num)
         IN  IF Has(acc, key) THEN acc
             ELSE DictSet(acc, key,
                      PortRecord(line[1], port_num, ip, line[4], pid, Unknown))
    ELSE acc

\* '/' in process_info
HasSlash(tok) == \E a \in PidPool \cup {"-"}, b \in ProcPool : tok = a \o "/" \o b

\* process_info.split('/', 1)
SplitSlash(tok) ==
    CHOOSE ab \in (PidPool \cup {"-"}) \X ProcPool : tok = ab[1] \o "/" \o ab[2]

\* protocol.upper(), for the protocol names the tools print
Upper(protocol) ==
    CASE protocol = "tcp" -> "TCP"
      [] protocol = "tcp4" -> "TCP4"
      [] protocol = "tcp6" -> "TCP6"
      [] protocol = "udp" -> "UDP"
      [] protocol = "udp4" -> "UDP4"
      [] protocol = "udp6" -> "UDP6"
      [] OTHER -> protocol

\* netstat -tulpn, with the protocol column converted to upper case
LinuxNetstatLineUpper(line, acc) ==
    IF (InLine(line, "LISTEN") \/ InLine(line, "udp"))
       /\ Len(line) >= 6 /\ HasSep(line[4], ":")
       /\ IsInt(RSplit(line[4], ":")[2])
    THEN LET ip == RSplit(line[4], ":")[1]
             port_num == IntOf(RSplit(line[4], ":")[2])
             process_info == IF Len(line) > 6 THEN line[7] ELSE Unknown
             pid == IF HasSlash(process_info)
                    THEN SplitSlash(process_info)[1] ELSE Unknown
             process == IF HasSlash(process_info)
                        THEN SplitSlash(process_info)[2] ELSE Unknown
         IN  DictSet(acc, Upper(line[1]) \o ":" \o ToString(port_num),
                 PortRecord(Upper(line[1]), port_num, ip, "LISTENING", pid,
                            process))
    ELSE acc

\* netstat -tulpn
LinuxNetstatLine(line, acc) ==
    IF (InLine(line, "LISTEN") \/ InLine(line, "udp"))
       /\ Len(line) >= 6 /\ HasSep(line[4], ":")
       /\ IsInt(RSplit(line[4], ":")[2])
    THEN LET ip == RSplit(line[4], ":")[1]
             port_num == IntOf(RSplit(line[4], ":")[2])
             process_info == IF Len(line) > 6 THEN line[7] ELSE Unknown
             pid == IF HasSlash(process_info)
                    THEN SplitSlash(process_info)[1] ELSE Unknown
             process == IF HasSlash(process_info)
                        THEN SplitSlash(process_info)[2] ELSE Unknown
         IN  DictSet(acc, line[1] \o ":" \o ToString(port_num),
                 PortRecord(line[1], port_num, ip, "LISTENING", pid, process))
    ELSE acc

\* users:(("name",pid=N,fd=M))
SsUsers(pid, process) == "users:((\"" \o process \o "\",pid=" \o pid \o ",fd=3))"

\* re.search(r'pid=(\d+)', process_info)
SsPid(tok) ==
    IF \E a \in PidPool, b \in ProcPool : tok = SsUsers(a, b)
    THEN (CHOOSE ab \in PidPool \X ProcPool : tok = SsUsers(ab[1], ab[2]))[1]
    ELSE Unknown

\* re.search(r'\("([^"]+)"', process_info)
SsProcess(tok) ==
    IF \E a \in PidPool, b \in ProcPool : tok = SsUsers(a, b)
    THEN (CHOOSE ab \in PidPool \X ProcPool : tok = SsUsers(ab[1], ab[2]))[2]
    ELSE Unknown

\* ss -tulpn
SsLine(line, acc) ==
    IF (InLine(line, "LISTEN") \/ InLine(line, "UNCONN"))
       /\ Len(line) >= 5 /\ HasSep(line[5], ":")
       /\ IsInt(RSplit(line[5], ":")[2])
    THEN LET ip == RSplit(line[5], ":")[1]
             port_num == IntOf(RSplit(line[5], ":")[2])
             process_info == IF Len(line) > 6 THEN line[7] ELSE Unknown
         IN  DictSet(acc, line[1] \o ":" \o ToString(port_num),
                 PortRecord(line[1], port_num, ip, "LISTENING",
                            SsPid(process_info), SsProcess(process_info)))
    ELSE acc

\* netstat -an on macOS, with the state stored as the tool prints it
MacNetstatLineAsPrinted(line, acc) ==
    IF InLine(line, "LISTEN") /\ Len(line) >= 6 /\ HasSep(line[4], ".")
       /\ IsInt(RSplit(line[4], ".")[2])
    THEN LET ip == RSplit(line[4], ".")[1]
             port_num == IntOf(RSplit(line[4], ".")[2])
         IN  DictSet(acc, line[1] \o ":" \o ToString(port_num),
                 PortRecord(line[1], port_num, ip, line[6], Unknown, Unknown))
    ELSE acc

\* netstat -an on macOS: the local address is address.port
MacNetstatLine(line, acc) ==
    IF InLine(line, "LISTEN") /\ Len(line) >= 6 /\ HasSep(line[4], ".")
       /\ IsInt(RSplit(line[4], ".")[2])
    THEN LET ip == RSplit(line[4], ".")[1]
             port_num == IntOf(RSplit(line[4], ".")[2])
         IN  DictSet(acc, line[1] \o ":" \o ToString(port_num),
                 PortRecord(line[1], port_num, ip, "LISTENING", Unknown, Unknown))
    ELSE acc

\* lsof -i -P -n; no address of the model holds '->'
LsofLine(line, acc) ==
    IF InLine(line, "LISTEN") /\ Len(line) >= 9 /\ HasSep(line[9], ":")
       /\ IsInt(RSplit(line[9], ":")[2])
    THEN LET address == RSplit(line[9], ":")[1]
             port_num == IntOf(RSplit(line[9], ":")[2])
         IN  DictSet(acc, "TCP:" \o ToString(port_num),
                 PortRecord("TCP", port_num,
                            IF address # "*" THEN address ELSE "0.0.0.0",
                            "LISTENING", line[2], line[1]))
    ELSE acc

\* Get-NetTCPConnection ... | ConvertTo-Json: LocalPort and OwningProcess are
\* JSON numbers
PowershellTcpItem(conn, acc) ==
    IF IsDict(conn) /\ "LocalPort" \in DOMAIN conn /\ conn.LocalPort # 0
    THEN DictSet(acc, "TCP:" \o ToString(conn.LocalPort),
             PortRecord("TCP", conn.LocalPort,
                        JGet(conn, "LocalAddress", "0.0.0.0"), "LISTENING",
                        JGet(conn, "OwningProcess", None), Unknown))
    ELSE acc

\* every record is looked up, whatever its PID field holds
PidKnownAlways(pid) == TRUE

\* pid and pid != 'Unknown' and pid != '0'
PidKnown(pid) == pid # "" /\ pid # Unknown /\ pid # "0"

\* the last line is taken for the data row, whether or not there is one
TasklistPatchAnyLine(port_data, lines) ==
    [port_data EXCEPT !.Process = lines[Len(lines)][1]]

\* the data row's PID column is stored as well as its image name
TasklistPatchWholeRow(port_data, lines) ==
    IF Len(lines) > 1
    THEN [port_data EXCEPT !.Process =
              IF Len(lines[2]) >= 1 THEN lines[2][1] ELSE "",
                           !.PID =
              IF Len(lines[2]) >= 2 THEN lines[2][2] ELSE port_data.PID]
    ELSE port_data

\* tasklist /FI "PID eq N" /FO CSV: the fields of a line are
\* line.replace('"', '').split(',')
TasklistPatch(port_data, lines) ==
    IF Len(lines) > 1
    THEN [port_data EXCEPT !.Process =
              IF Len(lines[2]) >= 1 THEN lines[2][1] ELSE ""]
    ELSE port_data

(***************************************************************************)
(* Firmware probes: src/utils/hardware_firmware_reader.py                  *)
(***************************************************************************)
\* {label: data.get(key, 'Unknown') for <<label, key>> in fields}
RECURSIVE FieldsFrom(_, _, _)
FieldsFrom(data, fields, i) ==
    IF i > Len(fields) THEN <<>>
    ELSE <<<<fields[i][1], JGet(data, fields[i][2], Unknown)>>>>
         \o FieldsFrom(data, fields, i + 1)

BiosFields == <<<<"Manufacturer", "Manufacturer">>, <<"Name", "Name">>,
                <<"Version", "Version">>, <<"Release Date", "ReleaseDate">>,
                <<"Serial Number", "SerialNumber">>>>

BaseBoardFields == <<<<"Manufacturer", "Manufacturer">>, <<"Product", "Product">>,
                     <<"Version", "Version">>, <<"Serial Number", "SerialNumber">>>>

NetAdapterFields == <<<<"Manufacturer", "Manufacturer">>,
                      <<"Description", "Description">>,
                      <<"Driver Version", "DriverVersion">>>>

DiskDriveFields == <<<<"Manufacturer", "Manufacturer">>,
                     <<"Firmware Revision", "FirmwareRevision">>,
                     <<"Serial Number", "SerialNumber">>,
                     <<"Interface Type", "InterfaceType">>>>

VideoFields == <<<<"Driver Version", "DriverVersion">>,
                 <<"Driver Date", "DriverDate">>,
                 <<"Video Processor", "VideoProcessor">>>>

\* Win32_BIOS, Win32_BaseBoard: only a bare object is read
WmiSingle(raw, fields) ==
    IF raw.t = "dict" THEN FieldsFrom(raw.obj, fields, 1) ELSE <<>>

\* Win32_NetworkAdapter, Win32_DiskDrive, Win32_VideoController: a list's
\* items are named by nameKey or numbered, a bare object by nameKey or fallback
RECURSIVE WmiDevices(_, _, _, _, _, _)
WmiDevices(items, i, nameKey, fallback, fields, acc) ==
    IF i > Len(items) THEN acc
    ELSE WmiDevices(items, i + 1, nameKey, fallback, fields,
             IF IsDict(items[i])
             THEN DictSet(acc,
                      JGet(items[i], nameKey, fallback \o " " \o ToString(i)),
                      FieldsFrom(items[i], fields, 1))
             ELSE acc)

WmiMany(raw, nameKey, fallback, fields) ==
    IF raw.t = "list"
    THEN WmiDevices(raw.items, 1, nameKey, fallback, fields, <<>>)
    ELSE IF raw.t = "dict"
    THEN <<<<JGet(raw.obj, nameKey, fallback), FieldsFrom(raw.obj, fields, 1)>>>>
    ELSE <<>>

\* dmidecode -t bios: a line is <<label, value>> for "label: value"
DmidecodeLine(line, acc) ==
    IF Len(line) < 2 THEN acc
    ELSE IF line[1] = "Vendor" THEN DictSet(acc, "Manufacturer", line[2])
    ELSE IF line[1] \in {"Version", "Firmware Version"}
    THEN DictSet(acc, "Version", line[2])
    ELSE IF line[1] = "Release Date" THEN DictSet(acc, "Release Date", line[2])
    ELSE acc

\* lspci -v: a line is <<"dev", class, description>> for a device's first
\* line, <<"driver", name>> for "Kernel driver in use: name", or <<"other">>
RECURSIVE LspciScan(_, _, _, _)
LspciScan(lines, i, current_device, acc) ==
    IF i > Len(lines) THEN acc
    ELSE IF Len(lines[i]) = 3 /\ lines[i][1] = "dev"
            /\ lines[i][2] \in {"Ethernet controller", "Network controller"}
    THEN LspciScan(lines, i + 1, lines[i][3], DictSet(acc, lines[i][3], <<>>))
    ELSE IF current_device # None /\ Len(lines[i]) = 2 /\ lines[i][1] = "driver"
    THEN LspciScan(lines, i + 1, current_device,
             DictSet(acc, current_device,
                     DictSet(Get(acc, current_device), "Driver", lines[i][2])))
    ELSE LspciScan(lines, i + 1, current_device, acc)

\* parts[0] starts with a tree-drawing character (a partition's line)
IsTreeChild(tok) == tok \in {"|-sda1", "+-sda2"}

\* lsblk -o NAME,MODEL,SERIAL,REV: the fields of a line are line.split()
LsblkLine(line, acc) ==
    IF Len(line) >= 2 /\ ~IsTreeChild(line[1])
    THEN LET serial == IF Len(line) > 2 THEN <<<<"Serial", line[3]>>>> ELSE <<>>
             rev == IF Len(line) > 3
                    THEN <<<<"Firmware Revision", line[4]>>>> ELSE <<>>
         IN  IF serial \o rev # <<>>
             THEN DictSet(acc, line[2], serial \o rev) ELSE acc
    ELSE acc

\* system_profiler SPHardwareDataType -json
SpHardware(raw) ==
    IF raw.t = "dict" /\ JGet(raw.obj, "SPHardwareDataType", <<>>) # <<>>
    THEN LET hw == raw.obj.SPHardwareDataType[1]
         IN  <<<<"Boot ROM Version", JGet(hw, "boot_rom_version", Unknown)>>,
               <<"SMC Version", JGet(hw, "SMC_version_system", Unknown)>>,
               <<"Serial Number", JGet(hw, "serial_number", Unknown)>>>>
    ELSE <<>>

\* system_profiler SPStorageDataType -json
RECURSIVE SpStorageDevices(_, _, _)
SpStorageDevices(items, i, acc) ==
    IF i > Len(items) THEN acc
    ELSE SpStorageDevices(items, i + 1,
             DictSet(acc, JGet(items[i], "_name", "Unknown Storage"),
                 <<<<"Physical Drive",
                     JGet(items[i], "com.apple.diskUtility.partitionMapType", Unknown)>>,
                   <<"Media Name", JGet(items[i], "device_model", Unknown)>>,
                   <<"Revision", JGet(items[i], "device_revision", Unknown)>>>>))

SpStorage(raw) ==
    IF raw.t = "dict"
    THEN SpStorageDevices(JGet(raw.obj, "SPStorageDataType", <<>>), 1, <<>>)
    ELSE <<>>

(***************************************************************************)
(* The probe chains                                                        *)
(***************************************************************************)
Platforms == {"windows", "linux", "darwin", "freebsd"}
Domains == {"software", "ports", "firmware"}

\* the if / elif / else on platform.system().lower()
Dispatch(sys) ==
    IF sys = "windows" THEN "windows"
    ELSE IF sys = "linux" THEN "linux"
    ELSE IF sys = "darwin" THEN "darwin"
    ELSE "unsupported"

package_managers == <<"dpkg", "rpm", "pacman", "apk", "zypper", "portage">>

registry_paths == <<"reg_hklm", "reg_wow6432", "reg_hkcu">>

Chain(sys, dom) ==
    CASE sys = "linux" /\ dom = "software" ->
            package_managers \o <<"snap", "flatpak", "pip">>
      [] sys = "windows" /\ dom = "software" ->
            <<"wmic">> \o registry_paths \o <<"get_package", "appx", "pip">>
      [] sys = "darwin" /\ dom = "software" ->
            <<"system_profiler_apps", "brew", "brew_cask", "port", "mas", "pip">>
      [] sys = "linux" /\ dom = "ports" -> <<"netstat_linux", "ss">>
      [] sys = "windows" /\ dom = "ports" ->
            <<"netstat_win", "tasklist", "powershell_tcp">>
      [] sys = "darwin" /\ dom = "ports" -> <<"netstat_mac", "lsof">>
      [] sys = "windows" /\ dom = "firmware" ->
            <<"wmi_bios", "wmi_baseboard", "wmi_netadapter", "wmi_diskdrive",
              "wmi_video">>
      [] sys = "linux" /\ dom = "firmware" -> <<"dmidecode", "lspci", "lsblk">>
      [] sys = "darwin" /\ dom = "firmware" -> <<"sp_hardware", "sp_storage">>
      [] OTHER -> <<>>

\* the probes whose except clause is "pass"
SilentHandlers == {"snap", "flatpak", "brew", "brew_cask", "port", "mas",
                   "tasklist"}

\* every except clause prints
HandlerAlwaysPrints(p) == "print"

\* what the except clause around the probe's subprocess.run does
Handler(p) == IF p \in SilentHandlers THEN "silent" ELSE "print"

\* subprocess.run is called without timeout=
HasTimeoutNever(p) == FALSE

\* subprocess.run(..., timeout=...) of the probe
HasTimeout(p) == TRUE

JsonProbes == {"reg_hklm", "reg_wow6432", "reg_hkcu", "get_package", "appx",
               "powershell_tcp", "wmi_bios", "wmi_baseboard", "wmi_netadapter",
               "wmi_diskdrive", "wmi_video", "sp_hardware", "sp_storage"}

\* the category key a port or firmware probe stores its records under
Category(p) ==
    CASE p \in {"netstat_linux", "netstat_win", "netstat_mac"} -> "Listening Ports"
      [] p = "ss" -> "SS Listeners"
      [] p = "lsof" -> "LSOF Listeners"
      [] p = "powershell_tcp" -> "TCP Listeners"
      [] p \in {"wmi_bios", "dmidecode"} -> "BIOS/UEFI"
      [] p = "wmi_baseboard" -> "Motherboard"
      [] p = "wmi_netadapter" -> "Network Adapters"
      [] p = "lspci" -> "Network Devices"
      [] p \in {"wmi_diskdrive", "lsblk", "sp_storage"} -> "Storage Devices"
      [] p = "wmi_video" -> "Graphics Cards"
      [] p = "sp_hardware" -> "System Firmware"
      [] OTHER -> ""

\* the header lines a text parser skips
HeaderLines(p) ==
    CASE p \in {"snap", "wmic", "port", "ss", "lsof", "lsblk"} -> 1
      [] p = "pip" -> 2
      [] p = "netstat_win" -> 4
      [] OTHER -> 0

LineInto(p, line, acc) ==
    CASE p = "dpkg" -> DpkgLine(line, acc)
      [] p = "rpm" -> RpmLine(line, acc)
      [] p = "pacman" -> PacmanLine(line, acc)
      [] p = "apk" -> ApkLine(line, acc)
      [] p = "zypper" -> ZypperLine(line, acc)
      [] p = "portage" -> PortageLine(line, acc)
      [] p = "snap" -> PrefixedLine("Snap: ", line, acc)
      [] p = "flatpak" -> FlatpakLine(line, acc)
      [] p = "pip" -> PrefixedLine("Python: ", line, acc)
      [] p = "wmic" -> WmicLine(line, acc)
      [] p = "brew" -> BrewLine(line, acc)
      [] p = "brew_cask" -> BrewCaskLine(line, acc)
      [] p = "port" -> MacPortsLine(line, acc)
      [] p = "mas" -> MasLine(line, acc)
      [] p = "netstat_win" -> WinNetstatLine(line, acc)
      [] p = "netstat_linux" -> LinuxNetstatLine(line, acc)
      [] p = "ss" -> SsLine(line, acc)
      [] p = "netstat_mac" -> MacNetstatLine(line, acc)
      [] p = "lsof" -> LsofLine(line, acc)
      [] p = "dmidecode" -> DmidecodeLine(line, acc)
      [] p = "lsblk" -> LsblkLine(line, acc)
      [] OTHER -> acc

ItemInto(p, item, acc) ==
    CASE p \in {"reg_hklm", "reg_wow6432", "reg_hkcu"} -> RegistryItem(item, acc)
      [] p = "get_package" -> GetPackageItem(item, acc)
      [] p = "appx" -> AppxItem(item, acc)
      [] p = "powershell_tcp" -> PowershellTcpItem(item, acc)
      [] OTHER -> acc

\* the first line that stores nothing ends the parse and discards its records
RECURSIVE FoldLinesStrict(_, _, _, _)
FoldLinesStrict(p, lines, i, acc) ==
    IF i > Len(lines) THEN acc
    ELSE IF LineInto(p, lines[i], acc) = acc THEN <<>>
    ELSE FoldLinesStrict(p, lines, i + 1, LineInto(p, lines[i], acc))

\* for line in lines: ...
RECURSIVE FoldLines(_, _, _, _)
FoldLines(p, lines, i, acc) ==
    IF i > Len(lines) THEN acc
    ELSE FoldLines(p, lines, i + 1, LineInto(p, lines[i], acc))

RECURSIVE FoldItems(_, _, _, _)
FoldItems(p, items, i, acc) ==
    IF i > Len(items) THEN acc
    ELSE FoldItems(p, items, i + 1, ItemInto(p, items[i], acc))

\* the records a probe that exited with status 0 stores into acc
ParseInto(p, raw, acc) ==
    CASE p = "system_profiler_apps" -> PlistScan(raw.lines, 1, None, acc)
      [] p = "lspci" -> LspciScan(raw.lines, 1, None, acc)
      [] p = "wmi_bios" -> WmiSingle(raw, BiosFields)
      [] p = "wmi_baseboard" -> WmiSingle(raw, BaseBoardFields)
      [] p = "wmi_netadapter" ->
            WmiMany(raw, "Name", "Network Adapter", NetAdapterFields)
      [] p = "wmi_diskdrive" ->
            WmiMany(raw, "Model", "Storage Device", DiskDriveFields)
      [] p = "wmi_video" -> WmiMany(raw, "Name", "Graphics Card", VideoFields)
      [] p = "sp_hardware" -> SpHardware(raw)
      [] p = "sp_storage" -> SpStorage(raw)
      [] p \in JsonProbes -> FoldItems(p, JsonItems(raw), 1, acc)
      [] OTHER -> FoldLines(p, Drop(raw.lines, HeaderLines(p)), 1, acc)

\* what the handlers print for a probe that exited with status 0:
\* json.loads raised ("parse"), or the payload's shape raised in the
\* reader's own code ("failed"), or nothing
ParseMessage(p, raw) ==
    IF p \notin JsonProbes THEN "none"
    ELSE IF raw.t = "invalid" THEN "parse"
    ELSE IF p \in {"sp_hardware", "sp_storage"}
    THEN IF raw.t = "empty" THEN "parse"
         ELSE IF raw.t \in {"list", "scalar"} THEN "failed"
         ELSE "none"
    ELSE "none"

(***************************************************************************)
(* The outputs the tools of the model produce when they exit with status 0 *)
(***************************************************************************)
Text(lines) == [t |-> "text", lines |-> lines]
JList(items) == [t |-> "list", items |-> items]
JDict(obj) == [t |-> "dict", obj |-> obj]
JInvalid == [t |-> "invalid"]
JEmpty == [t |-> "empty"]
JScalar == [t |-> "scalar"]

PipHeader == <<<<"Package", "Version">>, <<"-------", "-------">>>>

\* netstat -ano prints a blank line first; result.stdout.strip() removes it,
\* so three header lines remain and lines[4:] also skips the first connection
WinNetstatHeader == <<<<"Active", "Connections">>, <<>>,
                      <<"Proto", "Local", "Address", "Foreign", "Address",
                        "State", "PID">>>>

Outputs(p) ==
    CASE p = "dpkg" ->
            {Text(<<>>),
             Text(<<<<"Desired=Unknown/Install/Remove/Purge/Hold">>,
                    <<"ii", "curl", "1.0", "amd64">>,
                    <<"rc", "vim", "2.0", "amd64">>,
                    <<"ii", "git">>>>)}
      [] p = "rpm" ->
            {Text(<<<<"curl", "2.0", "1", "x86_64">>,
                    <<"Python: requests", "1.0", "1", "noarch">>,
                    <<"gpg(pubkey)">>>>)}
      [] p = "pacman" -> {Text(<<<<"vim", "2.0-1">>, <<"warning:">>>>)}
      [] p = "apk" ->
            {Text(<<<<"WARNING", "opening">>, <<"curl", "1.0", "r0">>,
                    <<"vim", "2.0">>>>)}
      [] p = "zypper" ->
            {Text(<<<<"S", "Name", "Summary">>, <<"--+--+--">>,
                    <<"i", "Python: requests", "1.0">>, <<"i", "git", "">>>>)}
      [] p = "portage" -> {Text(<<<<"app-editors", "vim", "2.0">>, <<"vim">>>>)}
      [] p = "snap" ->
            {Text(<<<<"Name", "Version", "Rev">>, <<"curl", "1.0", "12">>,
                    <<"core">>>>)}
      [] p = "flatpak" ->
            {Text(<<<<"git ", "2.0">>, <<"vim">>, <<"curl", " ">>>>)}
      [] p = "pip" ->
            {Text(PipHeader \o <<<<"requests", "2.0">>, <<"curl", "2.0">>,
                                 <<"pip">>>>),
             Text(PipHeader)}
      [] p = "wmic" ->
            {Text(<<<<"Node", "Name", "Version">>, <<"PC", "curl", "1.0">>,
                    <<"PC", " Python: requests", "1.0 ">>, <<"PC", "git", "">>>>)}
      [] p = "reg_hklm" ->
            {JList(<<[DisplayName |-> "curl", DisplayVersion |-> "2.0"],
                     [DisplayName |-> "vim"], [scalar |-> TRUE]>>),
             JInvalid}
      [] p = "reg_wow6432" ->
            {JDict([DisplayName |-> "vim ", DisplayVersion |-> "2.0"]), JEmpty}
      [] p = "reg_hkcu" ->
            {JDict([DisplayName |-> "Python: requests"]), JScalar}
      [] p = "get_package" ->
            {JList(<<[Name |-> "vim", Version |-> "1.0", Source |-> ""],
                     [Name |-> "git", Version |-> "1.0", Source |-> "msi"]>>),
             JDict([Name |-> "git", Version |-> "2.0"])}
      [] p = "appx" ->
            {JDict([Name |-> "curl", Version |-> "1.0"]), JList(<<>>)}
      [] p = "system_profiler_apps" ->
            {Text(<<<<"key", "_name">>, <<"string", "vim">>,
                    <<"key", "version">>, <<"string", "1.0">>,
                    <<"key", "_name">>, <<"string", "Homebrew: curl">>,
                    <<"key", "version">>, <<"string", "1.0">>>>),
             Text(<<<<"key", "_name">>, <<"string", "git">>,
                    <<"key", "_name">>, <<"string", "vim">>,
                    <<"other">>, <<"key", "version">>, <<"string", "2.0">>,
                    <<"key", "version">>, <<"string", "1.0">>>>)}
      [] p = "brew" -> {Text(<<<<"curl", "2.0">>, <<>>>>)}
      [] p = "brew_cask" -> {Text(<<<<"vim">>, <<"git", "2.0">>>>)}
      [] p = "port" ->
            {Text(<<<<"The", "following">>, <<"curl", "@", "1.0">>,
                    <<"None">>>>)}
      [] p = "mas" ->
            {Text(<<<<"497799835", "vim", "1.0">>, <<"No", "apps">>>>)}
      [] p = "netstat_linux" ->
            {Text(<<<<"Proto", "Recv-Q", "Send-Q", "Local", "Foreign", "State">>,
                    <<"tcp", "0", "0", "0.0.0.0:22", "0.0.0.0:*", "LISTEN",
                      "812/sshd">>,
                    <<"udp", "0", "0", "0.0.0.0:*", "0.0.0.0:*", "-">>>>),
             Text(<<>>)}
      [] p = "ss" ->
            {Text(<<<<"Netid", "State", "Recv-Q", "Send-Q", "Local", "Peer">>,
                    <<"tcp", "LISTEN", "0", "128", "0.0.0.0:22", "0.0.0.0:*",
                      SsUsers("812", "sshd")>>,
                    <<"tcp", "LISTEN", "0", "128", "127.0.0.1:8080",
                      "0.0.0.0:*">>>>)}
      [] p = "netstat_win" ->
            {Text(WinNetstatHeader \o
                  <<<<"TCP", "0.0.0.0:8080", "0.0.0.0:0", "LISTENING", "812">>,
                    <<"TCP", "0.0.0.0:22", "0.0.0.0:0", "LISTENING", "812">>,
                    <<"TCP", "127.0.0.1:8080", "0.0.0.0:0", "LISTENING", "0">>,
                    <<"TCP", "127.0.0.1:22", "127.0.0.1:8080", "ESTABLISHED",
                      "4">>>>),
             Text(WinNetstatHeader \o
                  <<<<"TCP", "0.0.0.0:22", "0.0.0.0:0", "LISTENING", "812">>,
                    <<"TCP", "0.0.0.0:8080", "0.0.0.0:0", "LISTENING", "4">>,
                    <<"TCP", "0.0.0.0:22", "0.0.0.0:0", "LISTENING", "4">>,
                    <<"UDP", "0.0.0.0:*", "*:*", "4">>>>)}
      [] p = "tasklist" ->
            {Text(<<<<"Image Name", "PID", "Session Name">>,
                    <<"sshd", "812", "Services">>>>),
             Text(<<<<"INFO: No tasks are running">>>>)}
      [] p = "powershell_tcp" ->
            {JList(<<[LocalAddress |-> "0.0.0.0", LocalPort |-> 22,
                      OwningProcess |-> 812],
                     [LocalAddress |-> "127.0.0.1", LocalPort |-> 8080,
                      OwningProcess |-> 4]>>),
             JDict([LocalAddress |-> "0.0.0.0", LocalPort |-> 22,
                    OwningProcess |-> 812])}
      [] p = "netstat_mac" ->
            {Text(<<<<"tcp4", "0", "0", "*.22", "*.*", "LISTEN">>,
                    <<"TCP", "0", "0", "127.0.0.1.8080", "*.*", "LISTEN">>,
                    <<"tcp4", "0", "0", "*.*", "*.*", "LISTEN">>>>)}
      [] p = "lsof" ->
            {Text(<<<<"COMMAND", "PID", "USER", "FD", "TYPE", "DEVICE",
                      "SIZE/OFF", "NODE", "NAME">>,
                    <<"java", "4", "root", "5u", "IPv4", "0x1", "0t0", "TCP",
                      "*:8080", "(LISTEN)">>>>)}
      [] p = "wmi_bios" ->
            {JDict([Manufacturer |-> "AMI", Version |-> "1.0"]),
             JList(<<[Manufacturer |-> "AMI"]>>)}
      [] p = "wmi_baseboard" -> {JDict([Product |-> "X99"]), JInvalid}
      [] p = "wmi_netadapter" ->
            {JList(<<[Name |-> "eth0", DriverVersion |-> "1.0"],
                     [DriverVersion |-> "2.0"]>>),
             JDict([Manufacturer |-> "Intel"])}
      [] p = "wmi_diskdrive" ->
            {JDict([Model |-> "sda", FirmwareRevision |-> "2.0"]), JEmpty}
      [] p = "wmi_video" -> {JList(<<[Name |-> "gpu0"]>>), JScalar}
      [] p = "dmidecode" ->
            {Text(<<<<"BIOS Information">>, <<"Vendor", "AMI">>,
                    <<"Version", "1.0">>, <<"Release Date", "01/01/2020">>>>),
             Text(<<<<"# No SMBIOS nor DMI entry point found, sorry.">>>>)}
      [] p = "lspci" ->
            {Text(<<<<"dev", "Ethernet controller", "eth0">>,
                    <<"other">>,
                    <<"dev", "VGA compatible controller", "gpu0">>,
                    <<"driver", "i915">>>>),
             Text(<<<<"dev", "VGA compatible controller", "gpu0">>,
                    <<"driver", "i915">>>>)}
      [] p = "lsblk" ->
            {Text(<<<<"NAME", "MODEL", "SERIAL", "REV">>,
                    <<"sda", "Samsung", "S1", "2.0">>, <<"|-sda1">>,
                    <<"sr0", "DVD">>>>)}
      [] p = "sp_hardware" ->
            {JDict([SPHardwareDataType |-> <<[boot_rom_version |-> "1.0"]>>]),
             JList(<<>>), JEmpty}
      [] p = "sp_storage" ->
            {JDict([SPStorageDataType |-> <<[_name |-> "sda"],
                                            [device_model |-> "Samsung"]>>]),
             JInvalid}
      [] OTHER -> {}

(***************************************************************************)
(* The summary functions                                                   *)
(***************************************************************************)
NoSummary == [kind |-> "none"]

\* k.startswith(prefix), for a prefix that ends in ':' and the keys the
\* readers build
StartsWith(k, prefix) == \E n \in NamePool : k = prefix \o " " \o n

\* len([k for k in software.keys() if k.startswith(prefixes)])
CountPrefixed(software, prefixes) ==
    Cardinality({i \in DOMAIN software :
                    \E q \in prefixes : StartsWith(software[i][1], q)})

\* get_software_summary of the three readers
SoftwareSummary(sys, software) ==
    CASE sys = "linux" ->
            [kind |-> "software", total_count |-> Len(software),
             counts |-> <<
               <<"python_packages", CountPrefixed(software, {"Python:"})>>,
               <<"system_packages", Len(software) -
                    CountPrefixed(software, {"Python:", "Snap:", "Flatpak:"})>>,
               <<"snap_packages", CountPrefixed(software, {"Snap:"})>>,
               <<"flatpak_packages", CountPrefixed(software, {"Flatpak:"})>>>>]
      [] sys = "windows" ->
            [kind |-> "software", total_count |-> Len(software),
             counts |-> <<
               <<"python_packages", CountPrefixed(software, {"Python:"})>>,
               <<"system_software", Len(software) -
                    CountPrefixed(software, {"Python:"})>>,
               <<"store_apps", CountPrefixed(software, {"Store:"})>>>>]
      [] OTHER ->
            [kind |-> "software", total_count |-> Len(software),
             counts |-> <<
               <<"python_packages", CountPrefixed(software, {"Python:"})>>,
               <<"system_applications", Len(software) -
                    CountPrefixed(software, {"Python:", "Homebrew:", "MacPorts:",
                                             "App Store:"})>>,
               <<"homebrew_packages", CountPrefixed(software, {"Homebrew:"})>>,
               <<"macports_packages", CountPrefixed(software, {"MacPorts:"})>>,
               <<"app_store_apps", CountPrefixed(software, {"App Store:"})>>>>]

\* the number of distinct keys over the categories from i on
SumLenDistinct(d, i) ==
    Cardinality(UNION {Keys(d[c][2]) : c \in {k \in DOMAIN d : k >= i}})

\* sum(len(v) for v in d.values())
RECURSIVE SumLen(_, _)
SumLen(d, i) ==
    IF i > Len(d) THEN 0 ELSE Len(d[i][2]) + SumLen(d, i + 1)

\* 'TCP' in protocol.upper() / 'UDP' in protocol.upper()
UpperHas(protocol, w) ==
    IF w = "TCP" THEN protocol \in {"tcp", "TCP", "tcp4", "tcp6"}
    ELSE protocol \in {"udp", "UDP", "udp4", "udp6"}

\* the records of every category, in order
RECURSIVE AllRecords(_, _)
AllRecords(d, i) ==
    IF i > Len(d) THEN <<>> ELSE d[i][2] \o AllRecords(d, i + 1)

\* get_port_summary
PortSummary(ports) ==
    LET recs == AllRecords(ports, 1)
        tcp == {i \in DOMAIN recs : UpperHas(recs[i][2].Protocol, "TCP")}
        udp == {i \in DOMAIN recs : ~UpperHas(recs[i][2].Protocol, "TCP")
                                    /\ UpperHas(recs[i][2].Protocol, "UDP")}
    IN  [kind |-> "ports", total_ports |-> SumLen(ports, 1),
         tcp_ports |-> Cardinality(tcp), udp_ports |-> Cardinality(udp),
         categories |-> [i \in DOMAIN ports |-> ports[i][1]]]

\* get_firmware_summary
FirmwareSummary(firmware) ==
    [kind |-> "firmware", total_components |-> SumLen(firmware, 1),
     categories |-> [i \in DOMAIN firmware |-> firmware[i][1]]]

(***************************************************************************)
(* One call of a collection function                                       *)
(***************************************************************************)
\* no output was read: the probe raised or exited with a non-zero status
NoOutput == [t |-> "none"]

NoProbe == [p |-> "", out |-> "none", recs |-> <<>>, raw |-> NoOutput]

NoMerge == [a |-> <<>>, b |-> <<>>, ab |-> <<>>, ba |-> <<>>]

\* no parser has been chosen
NoParse == [p |-> "", raw |-> NoOutput, before |-> <<>>, alone |-> <<>>,
            after |-> <<>>, dropped |-> 0, rest |-> <<>>]

\* the argument vector's variable part: the PID of a tasklist lookup
Command(p, res, j) ==
    IF p = "tasklist"
    THEN "tasklist PID eq " \o Get(res, "Listening Ports")[j][2].PID
    ELSE p

\* the first position at or after <<i, j>> at which subprocess.run is called:
\* the tasklist loop skips the records whose PID is not known, and the whole
\* loop when netstat stored no 'Listening Ports'
RECURSIVE NextSpawn(_, _, _, _)
NextSpawn(chain, i, j, res) ==
    IF i > Len(chain) THEN <<i, 0>>
    ELSE IF chain[i] # "tasklist" THEN <<i, 0>>
    ELSE IF ~Has(res, "Listening Ports") THEN NextSpawn(chain, i + 1, 1, res)
    ELSE IF j > Len(Get(res, "Listening Ports"))
    THEN NextSpawn(chain, i + 1, 1, res)
    ELSE IF PidKnown(Get(res, "Listening Ports")[j][2].PID) THEN <<i, j>>
    ELSE NextSpawn(chain, i, j + 1, res)

\* the package-manager loop without its break
AfterProbeNoBreak(chain, i, j, ok) ==
    IF chain[i] = "tasklist" THEN <<i, j + 1>> ELSE <<i + 1, 1>>

\* one try block around the whole function: the first failure ends it
AfterProbeAbort(chain, i, j, ok) ==
    IF ~ok THEN <<Len(chain) + 1, 1>>
    ELSE IF chain[i] = "tasklist" THEN <<i, j + 1>>
    ELSE <<i + 1, 1>>

\* a failed probe is tried again
AfterProbeRetry(chain, i, j, ok) ==
    IF ~ok /\ chain[i] # "tasklist" THEN <<i, 1>>
    ELSE IF chain[i] = "tasklist" THEN <<i, j + 1>>
    ELSE <<i + 1, 1>>

\* where control goes after the probe at <<i, j>>: the package-manager loop
\* breaks at the first manager that exited with status 0
AfterProbe(chain, i, j, ok) ==
    IF chain[i] \in Keys([k \in DOMAIN package_managers |->
                             <<package_managers[k], k>>]) /\ ok
    THEN <<Len(package_managers) + 1, 1>>
    ELSE IF chain[i] = "tasklist" THEN <<i, j + 1>>
    ELSE <<i + 1, 1>>

\* the reader function that holds the probe returns after it
FunctionEnds(sys, chain, i, ok) ==
    CASE sys = "linux" ->
            i > Len(package_managers) \/ AfterProbe(chain, i, 1, ok)[1] > Len(package_managers)
      [] sys = "windows" -> chain[i] \in {"appx", "pip"}
      [] OTHER -> TRUE

Init ==
    /\ system \in Platforms
    /\ domain \in Domains
    /\ pc = "start"
    /\ pos = 0
    /\ enrich = 0
    /\ inflight = {}
    /\ spawned = <<>>
    /\ diag = <<>>
    /\ log = <<>>
    /\ last = NoProbe
    /\ local = <<>>
    /\ result = <<>>
    /\ ret = "pending"
    /\ summary = NoSummary
    /\ merge = NoMerge
    /\ parse = NoParse

\* importing the reader module raises: line 46 of the Windows software reader
\* holds a backslash inside an f-string expression, a SyntaxError for every
\* interpreter older than Python 3.12
ImportRaises(sys, dom) == sys = "windows" /\ dom = "software"

\* get_installed_software (through get_platform_reader), get_listening_ports
\* or get_firmware_info is called and dispatches on the platform
Start ==
    /\ pc = "start"
    /\ \/ /\ Dispatch(system) = "unsupported"
          /\ pc' = "done"
          /\ ret' = IF domain = "software" THEN "raised OSError" ELSE "returned"
          /\ result' = IF domain = "software" THEN result
                       ELSE <<<<"error",
                                "Unsupported operating system: " \o system>>>>
          /\ UNCHANGED <<pos, enrich>>
       \/ /\ Dispatch(system) # "unsupported"
          /\ pc' = "run"
          /\ pos' = 1
          /\ enrich' = 0
          /\ UNCHANGED <<ret, result>>
       \/ /\ ImportRaises(Dispatch(system), domain)
          /\ pc' = "done"
          /\ ret' = "raised SyntaxError"
          /\ UNCHANGED <<pos, enrich, result>>
    /\ UNCHANGED <<system, domain, inflight, spawned, diag, log, last, local,
                   summary, merge, parse>>

TheChain == Chain(Dispatch(system), domain)

\* the effects of a completed probe: p is the probe, out its outcome, raw
\* what it wrote, recs the records it parsed, msg what its handler prints,
\* local1 and result1 the reader's dicts after it
Complete(p, out, raw, recs, msg, local1, result1) ==
    LET ok == out \in {"ok", "badjson"}
        merged == IF domain = "software"
                     /\ FunctionEnds(Dispatch(system), TheChain, pos, ok)
                  THEN Update(result1, local1) ELSE result1
        after == AfterProbe(TheChain, pos, enrich, ok)
        next == NextSpawn(TheChain, after[1], after[2], merged)
    IN  /\ inflight' = {}
        /\ diag' = IF msg = "none" THEN diag ELSE Append(diag, <<p, msg>>)
        /\ log' = Append(log, [p |-> p,
                               out |-> IF out \in {"absent", "timeout"}
                                       THEN "raised" ELSE out,
                               n |-> Len(recs)])
        /\ last' = [p |-> p, out |-> out, recs |-> recs, raw |-> raw]
        /\ result' = merged
        /\ local' = IF domain = "software"
                       /\ ~FunctionEnds(Dispatch(system), TheChain, pos, ok)
                    THEN local1 ELSE <<>>
        /\ pos' = next[1]
        /\ enrich' = next[2]
        /\ IF next[1] > Len(TheChain)
           THEN pc' = "done" /\ ret' = "returned"
           ELSE pc' = "run" /\ ret' = ret
        /\ UNCHANGED <<system, domain, summary, merge, parse>>

\* the probe raised (FileNotFoundError, TimeoutExpired) or exited non-zero
Fail(p, out) ==
    Complete(p, out, NoOutput, <<>>,
             IF out # "nonzero" /\ Handler(p) = "print" THEN "failed" ELSE "none",
             local, result)

\* a probe's category is stored whether or not it holds a record
SucceedStoresEmpty(p, raw) ==
    LET msg == ParseMessage(p, raw)
        out == IF msg = "none" THEN "ok" ELSE "badjson"
    IN  IF p = "tasklist"
        THEN LET ports == Get(result, "Listening Ports")
                 patched == [ports EXCEPT ![enrich] =
                                <<ports[enrich][1],
                                  TasklistPatch(ports[enrich][2], raw.lines)>>]
             IN  Complete(p, out, raw, <<>>, msg, local,
                          DictSet(result, "Listening Ports", patched))
        ELSE IF domain = "software"
        THEN Complete(p, out, raw, ParseInto(p, raw, <<>>), msg,
                      ParseInto(p, raw, local), result)
        ELSE LET recs == ParseInto(p, raw, <<>>)
             IN  Complete(p, out, raw, recs, msg, local,
                          DictSet(result, Category(p), recs))

\* the probe exited with status 0 and wrote raw
Succeed(p, raw) ==
    LET msg == ParseMessage(p, raw)
        out == IF msg = "none" THEN "ok" ELSE "badjson"
    IN  IF p = "tasklist"
        THEN LET ports == Get(result, "Listening Ports")
                 patched == [ports EXCEPT ![enrich] =
                                <<ports[enrich][1],
                                  TasklistPatch(ports[enrich][2], raw.lines)>>]
             IN  Complete(p, out, raw, <<>>, msg, local,
                          DictSet(result, "Listening Ports", patched))
        ELSE IF domain = "software"
        THEN Complete(p, out, raw, ParseInto(p, raw, <<>>), msg,
                      ParseInto(p, raw, local), result)
        ELSE LET recs == ParseInto(p, raw, <<>>)
             IN  Complete(p, out, raw, recs, msg, local,
                          IF recs # <<>> THEN DictSet(result, Category(p), recs)
                          ELSE result)

\* subprocess.run is called: the executable is missing, or a child starts
Spawn ==
    /\ pc = "run"
    /\ inflight = {}
    /\ LET p == TheChain[pos]
       IN  /\ spawned' = Append(spawned, Command(p, result, enrich))
           /\ \/ Fail(p, "absent")
              \/ /\ \E hangs \in BOOLEAN :
                        inflight' = {[p |-> p, hangs |-> hangs]}
                 /\ UNCHANGED <<system, domain, pc, pos, enrich, diag, log,
                                last, local, result, ret, summary, merge,
                                parse>>

\* the child exits before the timeout
ChildExit ==
    /\ pc = "run"
    /\ \E c \in inflight :
          /\ ~c.hangs
          /\ \/ Fail(c.p, "nonzero")
             \/ \E raw \in Outputs(c.p) : Succeed(c.p, raw)
    /\ UNCHANGED spawned

\* the timeout expires: subprocess.run kills the child and raises
ChildTimeout ==
    /\ pc = "run"
    /\ \E c \in inflight :
          /\ c.hangs
          /\ HasTimeout(c.p)
          /\ Fail(c.p, "timeout")
    /\ UNCHANGED spawned

\* the domain's summary function continues with what the collection
\* function returned
Summarize ==
    /\ pc = "done"
    /\ pc' = "summarized"
    /\ summary' =
          IF ret # "returned" THEN NoSummary
          ELSE IF domain = "software" THEN SoftwareSummary(Dispatch(system), result)
          ELSE IF Has(result, "error") THEN [kind |-> "error", value |-> result]
          ELSE IF domain = "ports" THEN PortSummary(result)
          ELSE FirmwareSummary(result)
    /\ UNCHANGED <<system, domain, pos, enrich, inflight, spawned, diag, log,
                   last, local, result, ret, merge, parse>>

Next == Start \/ Spawn \/ ChildExit \/ ChildTimeout \/ Summarize

Spec == Init /\ [][Next]_vars

\* every call makes progress: the interpreter runs the reader's code, and the
\* operating system ends a child or subprocess.run's timer fires
FairSpec == Spec /\ WF_vars(Start \/ Spawn \/ ChildExit \/ ChildTimeout)

(***************************************************************************)
(* Vocabulary of the properties                                            *)
(***************************************************************************)
Supported == Dispatch(system) # "unsupported"

Finished == pc \in {"done", "summarized"}

\* a log entry of a probe that raised or exited with a non-zero status
Failed(e) == e.out \in {"raised", "nonzero"}

\* the step completes a probe that was absent, timed out or exited non-zero
ProbeFailsStep ==
    /\ log' # log
    /\ last'.out \in {"absent", "timeout", "nonzero"}

IndexOf(chain, p) == CHOOSE i \in DOMAIN chain : chain[i] = p

IsManager(p) == \E k \in DOMAIN package_managers : package_managers[k] = p

Ran(p) == \E i \in DOMAIN log : log[i].p = p

\* the records the caller would receive if every remaining probe added none
Collected(res, loc) == Update(res, loc)

(***************************************************************************)
(* C1: failure isolation.  In every chain, a probe whose executable is     *)
(* absent, that times out or that exits non-zero contributes zero records, *)
(* leaves the records collected from the earlier probes as they were,      *)
(* lets no exception escape the collection function, and is followed by    *)
(* the next probe of the chain: when the function has returned, every      *)
(* probe declared after a failed one has run, unless an earlier success of *)
(* the package-manager loop ended that loop (C8); the tasklist lookups     *)
(* run once per stored record, so there are none when nothing was stored.  *)
(***************************************************************************)
C1_FailedStep ==
    ProbeFailsStep =>
        /\ last'.recs = <<>>
        /\ log'[Len(log')].n = 0
        /\ Collected(result', local') = Collected(result, local)
        /\ ret' \in {"pending", "returned"}
        /\ IF pos' <= Len(TheChain)
           THEN /\ pc' = "run"
                /\ \/ pos' = pos + 1
                   \/ pos' = pos /\ TheChain[pos] = "tasklist" /\ enrich' > enrich
                   \/ pos' = pos + 2 /\ TheChain[pos + 1] = "tasklist"
           ELSE /\ pc' = "done"
                /\ ret' = "returned"
                /\ pos = Len(TheChain)

C1_LaterProbesRan ==
    Finished =>
        \A i \in DOMAIN log :
           Failed(log[i]) =>
              /\ ret = "returned"
              /\ \A j \in (IndexOf(TheChain, log[i].p) + 1)..Len(TheChain) :
                    \/ Ran(TheChain[j])
                    \/ TheChain[j] = "tasklist"
                    \/ /\ IsManager(TheChain[j])
                       /\ \E k \in DOMAIN log :
                             /\ IsManager(log[k].p)
                             /\ ~Failed(log[k])

\* C1: a failed probe adds and changes no record, raises nothing, and the
\* probes declared after it still run
C1_FailureIsolation == []C1_LaterProbesRan /\ [][C1_FailedStep]_vars

\* a probe failed after records had been collected, a later probe added
\* records, and the function returned
C1_Witness ==
    /\ Finished
    /\ ret = "returned"
    /\ \E i, j, k \in DOMAIN log :
          /\ i < j /\ j < k
          /\ log[i].n > 0
          /\ Failed(log[j])
          /\ log[k].n > 0

\* the diagnostics that name probe p
DiagCount(p) == Cardinality({i \in DOMAIN diag : diag[i][1] = p})

GuardedProbes == {"reg_hklm", "reg_wow6432", "reg_hkcu", "get_package", "appx"}

\* the step completes a software probe that exited with status 0
SoftwareProbeStep ==
    /\ log' # log
    /\ domain = "software"
    /\ last'.out \in {"ok", "badjson"}

\* the identities the completed probe reports that were collected before
Recollected == Keys(last'.recs) \cap Keys(Collected(result, local))

(***************************************************************************)
(* C3: first-writer-wins.  The claim as stated: when an earlier probe of   *)
(* the chain has resolved a value other than 'Unknown' for an identity and *)
(* a later probe reports a different value for it, the collected record    *)
(* keeps the earlier value.                                                *)
(***************************************************************************)
C3_FirstWriterWins ==
    [][SoftwareProbeStep =>
         \A k \in Recollected :
            LET old == Get(Collected(result, local), k)
                new == Get(last'.recs, k)
            IN  (old # Unknown /\ new # old) =>
                   Get(Collected(result', local'), k) = old]_vars

(***************************************************************************)
(* C3 as the code has it: the earlier value is kept when the later probe   *)
(* is one of the guarded inserts of get_windows_software (the three        *)
(* registry paths, Get-Package, AppX); for every other probe, whose        *)
(* records reach the result through dict.update, the later probe's value   *)
(* replaces the earlier one.                                               *)
(***************************************************************************)
C3_FirstWriterWinsWhereGuarded ==
    [][SoftwareProbeStep =>
         \A k \in Recollected :
            LET old == Get(Collected(result, local), k)
                new == Get(last'.recs, k)
            IN  (old # Unknown /\ new # old) =>
                   Get(Collected(result', local'), k) =
                      IF last'.p \in GuardedProbes THEN old ELSE new]_vars

\* wmic stored curl 1.0, the registry then reported curl 2.0, and the
\* collected record still carries 1.0
C3_Witness ==
    /\ last.p = "reg_hklm"
    /\ Has(last.recs, "curl") /\ Get(last.recs, "curl") = "2.0"
    /\ \E i \in DOMAIN log : log[i].p = "wmic" /\ log[i].n > 0
    /\ Has(local, "curl") /\ Get(local, "curl") = "1.0"

(***************************************************************************)
(* C4: backfill.  The claim as stated: when an earlier probe of the chain  *)
(* recorded an identity with version 'Unknown' and a later probe reports a *)
(* version other than 'Unknown' for it, the collected record carries the   *)
(* later probe's version.                                                  *)
(***************************************************************************)
C4_UnsetBackfilled ==
    [][SoftwareProbeStep =>
         \A k \in Recollected :
            (/\ Get(Collected(result, local), k) = Unknown
             /\ Get(last'.recs, k) # Unknown) =>
                Get(Collected(result', local'), k) = Get(last'.recs, k)]_vars

(***************************************************************************)
(* C4 as the code has it: a stored 'Unknown' is replaced by a later        *)
(* probe's version only when that probe's records are merged by            *)
(* dict.update; the guarded inserts of get_windows_software (registry      *)
(* paths, Get-Package, AppX) skip an identity that is already stored, so   *)
(* its 'Unknown' stays.                                                    *)
(***************************************************************************)
C4_BackfillOnlyByUpdate ==
    [][SoftwareProbeStep =>
         \A k \in Recollected :
            (/\ Get(Collected(result, local), k) = Unknown
             /\ Get(last'.recs, k) # Unknown) =>
                Get(Collected(result', local'), k) =
                   IF last'.p \in GuardedProbes THEN Unknown
                   ELSE Get(last'.recs, k)]_vars

\* the registry stored vim without a version, Get-Package then reported
\* vim 1.0, and the collected record still says 'Unknown'
C4_Witness ==
    /\ last.p = "get_package"
    /\ Has(last.recs, "vim") /\ Get(last.recs, "vim") = "1.0"
    /\ Has(local, "vim") /\ Get(local, "vim") = Unknown

\* the identities of a returned result, one per record
Identities ==
    IF domain = "software" THEN [i \in DOMAIN result |-> result[i][1]]
    ELSE LET recs == AllRecords(result, 1)
         IN  [i \in DOMAIN recs |-> recs[i][1]]

(***************************************************************************)
(* C5: unique identities.  The claim as stated: in the result of one       *)
(* software or port inventory every identity (package name, or             *)
(* "protocol:port") is carried by at most one record, also when several    *)
(* probes report it.                                                       *)
(***************************************************************************)
C5_IdentityUnique ==
    (Finished /\ ret = "returned" /\ Supported /\ domain # "firmware") =>
        \A i, j \in DOMAIN Identities :
           Identities[i] = Identities[j] => i = j

(***************************************************************************)
(* C5 as the code has it: an identity is carried by at most one record of  *)
(* a software result and by at most one record of each category of a port  *)
(* or firmware result, and no category appears twice; every port probe     *)
(* stores under a category of its own ('Listening Ports', 'SS Listeners',  *)
(* 'LSOF Listeners', 'TCP Listeners'), so a socket that two probes report  *)
(* is carried once in each of the two categories.                          *)
(***************************************************************************)
C5_IdentityUniquePerCategory ==
    /\ \A k \in Keys(result) : Count(result, k) = 1
    /\ \A k \in Keys(local) : Count(local, k) = 1
    /\ (domain # "software" /\ ~Has(result, "error")) =>
          \A c \in DOMAIN result :
             \A k \in Keys(result[c][2]) : Count(result[c][2], k) = 1

\* netstat and ss both reported tcp:22 and the result carries it twice,
\* once in each category
C5_Witness ==
    /\ Finished
    /\ system = "linux" /\ domain = "ports"
    /\ Has(result, "Listening Ports") /\ Has(result, "SS Listeners")
    /\ Has(Get(result, "Listening Ports"), "tcp:22")
    /\ Has(Get(result, "SS Listeners"), "tcp:22")

(***************************************************************************)
(* C6: the unsupported platform is the only fatal condition.  On a         *)
(* platform other than windows, linux or darwin every entry point and its  *)
(* summary function signals one explicit unsupported-platform error (an    *)
(* OSError for software, a dict with the single key 'error' for ports and  *)
(* firmware) and runs no probe; on a supported platform no entry point     *)
(* ever signals a fatal error.                                             *)
(***************************************************************************)
C6_OnlyUnsupportedIsFatal ==
    /\ (Finished /\ ~Supported) =>
          /\ spawned = <<>> /\ log = <<>> /\ diag = <<>>
          /\ IF domain = "software"
             THEN ret = "raised OSError" /\ result = <<>>
             ELSE ret = "returned" /\ [i \in DOMAIN result |-> result[i][1]] = <<"error">>
          /\ pc = "summarized" =>
                summary = IF domain = "software" THEN NoSummary
                          ELSE [kind |-> "error", value |-> result]
    /\ Supported =>
          /\ ret \in {"pending", "returned"}
          /\ ~Has(result, "error")
          /\ summary.kind # "error"

(***************************************************************************)
(* C7: every call completes.  Each probe either returns or is cancelled    *)
(* when its timeout expires, and the chain then proceeds, so whichever     *)
(* probes hang, the collection function eventually ends.                   *)
(***************************************************************************)
C7_EveryCallCompletes == <>Finished

\* a child that never exits was cancelled by the timeout of the chain's last
\* probe, after an earlier probe had been completed, and the function
\* returned
C7_Witness ==
    /\ Finished
    /\ ret = "returned"
    /\ last.out = "timeout"
    /\ Len(log) >= 2

\* the positions of the log that belong to package managers
ManagerRuns == {i \in DOMAIN log : IsManager(log[i].p)}

(***************************************************************************)
(* C8: the Linux package-manager loop.  Managers run in the order dpkg,    *)
(* rpm, pacman, apk, zypper, qlist; a manager runs only if every earlier   *)
(* one raised, timed out or exited non-zero; after the first manager that  *)
(* exits with status 0, also one whose output yields no record, no later   *)
(* manager runs; so at most one manager contributes records.               *)
(***************************************************************************)
C8_StopAtFirstSuccess ==
    (system = "linux" /\ domain = "software") =>
        /\ \A i \in ManagerRuns :
              /\ i <= Len(package_managers)
              /\ log[i].p = package_managers[i]
              /\ \A j \in 1..(i - 1) : Failed(log[j])
        /\ \A i \in DOMAIN spawned :
              IsManager(spawned[i]) =>
                 /\ spawned[i] = package_managers[i]
                 /\ \A j \in 1..(i - 1) : j \in DOMAIN log /\ Failed(log[j])
        /\ Cardinality({i \in ManagerRuns : log[i].n > 0}) <= 1
        /\ Finished =>
              \/ \E i \in ManagerRuns : ~Failed(log[i])
              \/ Cardinality(ManagerRuns) = Len(package_managers)

\* dpkg exited with status 0 and an output that yields no record: the loop
\* ended there, no other manager ran, and the call went on to its end
C8_Witness ==
    /\ Finished
    /\ system = "linux" /\ domain = "software"
    /\ log[1].p = "dpkg" /\ log[1].out = "ok" /\ log[1].n = 0
    /\ ManagerRuns = {1}
    /\ Ran("pip")

\* the chain position a spawned command belongs to
PositionOf(cmd) ==
    IF \E i \in DOMAIN TheChain : TheChain[i] = cmd
    THEN IndexOf(TheChain, cmd) ELSE IndexOf(TheChain, "tasklist")

\* one probe at a time: a command is spawned only after the previous one
\* has completed
OneAtATime ==
    /\ Cardinality(inflight) <= 1
    /\ Len(spawned) = Len(log) + Cardinality(inflight)

\* commands are spawned in the chain's declared order
InDeclaredOrder ==
    \A i, j \in DOMAIN spawned :
       i < j => /\ PositionOf(spawned[i]) <= PositionOf(spawned[j])
                /\ PositionOf(spawned[i]) = PositionOf(spawned[j]) =>
                      TheChain[PositionOf(spawned[i])] = "tasklist"

\* when the function has returned, every probe outside the package-manager
\* loop and the tasklist lookups has run, whatever the earlier outcomes
AdditiveProbesRan ==
    (Finished /\ ret = "returned" /\ Supported) =>
        \A i \in DOMAIN TheChain :
           (~IsManager(TheChain[i]) /\ TheChain[i] # "tasklist") =>
              Ran(TheChain[i])

(***************************************************************************)
(* C9: sequential execution.  The claim as stated: probes run one at a     *)
(* time in the chain's declared order, the additive probes always run, and *)
(* no command is spawned twice in one call.                                *)
(***************************************************************************)
C9_EachCommandOnce ==
    /\ OneAtATime
    /\ InDeclaredOrder
    /\ AdditiveProbesRan
    /\ \A i, j \in DOMAIN spawned : spawned[i] = spawned[j] => i = j

(***************************************************************************)
(* C9 as the code has it: probes run one at a time in the chain's declared *)
(* order, the additive probes always run, and every probe of the chain is  *)
(* spawned at most once and never retried; the tasklist lookups of         *)
(* get_windows_ports run once per stored record with a known PID, so the   *)
(* same tasklist command is spawned once for each socket the process owns. *)
(***************************************************************************)
C9_EachProbeOnce ==
    /\ OneAtATime
    /\ InDeclaredOrder
    /\ AdditiveProbesRan
    /\ \A i, j \in DOMAIN spawned :
          (spawned[i] = spawned[j] /\ i # j) =>
             /\ TheChain[PositionOf(spawned[i])] = "tasklist"
             /\ Has(result, "Listening Ports")
    /\ Cardinality({i \in DOMAIN spawned :
                       TheChain[PositionOf(spawned[i])] = "tasklist"})
          <= IF Has(result, "Listening Ports")
             THEN Len(Get(result, "Listening Ports")) ELSE 0

\* two sockets of one process were stored, the same tasklist command was
\* spawned for each, and the chain went on to its last probe
C9_Witness ==
    /\ Finished
    /\ system = "windows" /\ domain = "ports"
    /\ \E i, j \in DOMAIN spawned : i # j /\ spawned[i] = spawned[j]
    /\ Ran("powershell_tcp")

(***************************************************************************)
(* Merging two record sets in both orders                                  *)
(***************************************************************************)
MaxRecs == 2

MergeKeys == {"curl", "vim", "git"}

MergeValues == {Unknown, "1.0", "2.0"}

\* the dicts of at most MaxRecs records a probe can return
RecordSets ==
    {d \in UNION {[1..n -> MergeKeys \X MergeValues] : n \in 0..MaxRecs} :
        \A i, j \in DOMAIN d : d[i][1] = d[j][1] => i = j}

MergeInit ==
    /\ system = "linux"
    /\ domain = "software"
    /\ pc = "merge"
    /\ pos = 0
    /\ enrich = 0
    /\ inflight = {}
    /\ spawned = <<>>
    /\ diag = <<>>
    /\ log = <<>>
    /\ last = NoProbe
    /\ local = <<>>
    /\ result = <<>>
    /\ ret = "pending"
    /\ summary = NoSummary
    /\ \E a, b \in RecordSets : merge = [NoMerge EXCEPT !.a = a, !.b = b]
    /\ parse = NoParse

\* all_software = {}; all_software.update(first); all_software.update(second)
MergedByUpdate(first, second) == Update(Update(<<>>, first), second)

\* software_list = {}; one guarded insert per record of first, then of second
MergedByGuard(first, second) == UpdateKeep(UpdateKeep(<<>>, first), second)

\* the two record sets reach the result through dict.update
MergeByUpdate ==
    /\ pc = "merge"
    /\ pc' = "merged by update"
    /\ merge' = [merge EXCEPT !.ab = MergedByUpdate(merge.a, merge.b),
                              !.ba = MergedByUpdate(merge.b, merge.a)]
    /\ UNCHANGED <<system, domain, pos, enrich, inflight, spawned, diag, log,
                   last, local, result, ret, summary, parse>>

\* the two record sets are stored by guarded inserts
MergeByGuard ==
    /\ pc = "merge"
    /\ pc' = "merged by guard"
    /\ merge' = [merge EXCEPT !.ab = MergedByGuard(merge.a, merge.b),
                              !.ba = MergedByGuard(merge.b, merge.a)]
    /\ UNCHANGED <<system, domain, pos, enrich, inflight, spawned, diag, log,
                   last, local, result, ret, summary, parse>>

MergeNext == MergeByUpdate \/ MergeByGuard

MergeSpec == MergeInit /\ [][MergeNext]_vars

Merged == pc \in {"merged by update", "merged by guard"}

CommonKeys(a, b) == Keys(a) \cap Keys(b)

(***************************************************************************)
(* C10: order-independence.  The claim as stated: when two record sets     *)
(* hold no conflicting values other than 'Unknown' for a common identity,  *)
(* merging the first and then the second yields the same mapping as        *)
(* merging the second and then the first.                                  *)
(***************************************************************************)
C10_OrderIndependent ==
    (/\ Merged
     /\ \A k \in CommonKeys(merge.a, merge.b) :
           \/ Get(merge.a, k) = Get(merge.b, k)
           \/ Get(merge.a, k) = Unknown
           \/ Get(merge.b, k) = Unknown)
    => AsMap(merge.ab) = AsMap(merge.ba)

(***************************************************************************)
(* C10 as the code has it: the two orders yield the same mapping when the  *)
(* two record sets carry the same value for every common identity, where   *)
(* 'Unknown' counts as a value like any other: neither dict.update nor the *)
(* guarded insert treats 'Unknown' as unset.                               *)
(***************************************************************************)
C10_OrderIndependentWhenEqual ==
    (/\ Merged
     /\ \A k \in CommonKeys(merge.a, merge.b) :
           Get(merge.a, k) = Get(merge.b, k))
    => /\ AsMap(merge.ab) = AsMap(merge.ba)
       /\ AsMap(merge.ab) = AsMap(merge.a) \cup AsMap(merge.b)

\* two different record sets that share an identity with one value and
\* each hold an identity of their own were merged in both orders
C10_Witness ==
    /\ Merged
    /\ CommonKeys(merge.a, merge.b) # {}
    /\ \A k \in CommonKeys(merge.a, merge.b) : Get(merge.a, k) = Get(merge.b, k)
    /\ Keys(merge.a) \ Keys(merge.b) # {}
    /\ Keys(merge.b) \ Keys(merge.a) # {}
    /\ merge.ab # merge.ba

(***************************************************************************)
(* One parser applied to one output: the parser of a probe reads what the  *)
(* tool wrote and stores records into the dict its reader function holds   *)
(* at that point                                                           *)
(***************************************************************************)
\* the longest output body, in lines or in JSON array items
MaxLines == 3

Range(f) == {f[i] : i \in DOMAIN f}

SeqsUpTo(S, n) == UNION {[1..k -> S] : k \in 0..n}

\* every probe that stores records
Parsers ==
    UNION {Range(Chain(sys, dom)) : sys \in Platforms, dom \in Domains}
    \ {"tasklist"}

\* the lines a tool prints before its rows
HeaderOf(p) ==
    CASE p = "pip" -> PipHeader
      [] p = "netstat_win" -> WinNetstatHeader
      [] p = "snap" -> <<<<"Name", "Version", "Rev">>>>
      [] p = "wmic" -> <<<<"Node", "Name", "Version">>>>
      [] p = "port" -> <<<<"The", "following">>>>
      [] p = "ss" -> <<<<"Netid", "State", "Recv-Q", "Send-Q", "Local", "Peer">>>>
      [] p = "lsof" -> <<<<"COMMAND", "PID", "USER", "FD", "TYPE", "DEVICE",
                          "SIZE/OFF", "NODE", "NAME">>>>
      [] p = "lsblk" -> <<<<"NAME", "MODEL", "SERIAL", "REV">>>>
      [] OTHER -> <<>>

\* rows a tool can print besides those of Outputs: a second row of the same
\* name, and socket rows whose port is not a number
MoreLines(p) ==
    CASE p = "dpkg" -> {<<"ii", "curl", "2.0", "amd64">>,
                        <<"ii", "vim", "1.0", "all", "editor">>,
                        <<"iiR", "git", "1.0", "amd64">>,
                        <<"ii", "curl", "7.81.0-1", "amd64", "command", "line",
                          "tool">>,
                        <<"iU", "git", "2.0", "amd64">>}
      [] p = "netstat_linux" ->
            {<<"tcp", "0", "0", "0.0.0.0:8080", "0.0.0.0:*", "LISTEN">>,
             <<"tcp", "0", "0", "0.0.0.0:*", "0.0.0.0:*", "LISTEN", "4/java">>,
             <<"tcp6", "0", "0", "127.0.0.1:22", "0.0.0.0:*", "LISTEN",
               "-/sshd">>}
      [] p = "ss" ->
            {<<"tcp", "LISTEN", "0", "128", "0.0.0.0:*", "0.0.0.0:*">>,
             <<"tcp", "LISTEN", "0", "128", "0.0.0.0:8080", "0.0.0.0:*">>}
      [] p = "netstat_win" ->
            {<<"TCP", "0.0.0.0:*", "0.0.0.0:0", "LISTENING", "4">>}
      [] p = "lsof" ->
            {<<"sshd", "812", "root", "3u", "IPv4", "0x2", "0t0", "TCP",
               "*:*", "(LISTEN)">>,
             <<"sshd", "812", "root", "3u", "IPv4", "0x2", "0t0", "TCP",
               "127.0.0.1:22", "(LISTEN)">>}
      [] OTHER -> {}

\* the rows the tool of a text probe prints
LinePool(p) ==
    (UNION {Range(raw.lines) : raw \in {r \in Outputs(p) : r.t = "text"}}
     \cup MoreLines(p)) \ Range(HeaderOf(p))

\* the objects the tool of a JSON probe prints
ObjectPool(p) ==
    UNION {Range(JsonItems(raw)) : raw \in Outputs(p)}
    \cup (CASE p \in Range(registry_paths) ->
                 {[DisplayName |-> "curl", DisplayVersion |-> "2.0"],
                  [DisplayName |-> "vim"], [DisplayVersion |-> "1.0"]}
            [] p = "appx" -> {[Name |-> "vim"], [Version |-> "2.0"]}
            [] p \in {"wmi_bios", "wmi_baseboard"} ->
                 {[Manufacturer |-> "AMI", Version |-> "2.0"]}
            [] p \in {"wmi_netadapter", "wmi_video"} -> {[Name |-> "eth1"]}
            [] p = "wmi_diskdrive" -> {[Model |-> "sdb"], [Manufacturer |-> "WD"]}
            [] OTHER -> {})

\* the outputs a parser is applied to: the pooled ones, and every body of at
\* most MaxLines rows (or items) of the pool
Inputs(p) ==
    IF p \in {"sp_hardware", "sp_storage"} THEN Outputs(p)
    ELSE IF p \in JsonProbes
    THEN Outputs(p) \cup {JDict(o) : o \in {x \in ObjectPool(p) : IsDict(x)}}
         \cup {JList(items) : items \in SeqsUpTo(ObjectPool(p), MaxLines)}
    ELSE Outputs(p)
         \cup {Text(HeaderOf(p) \o body) :
                  body \in SeqsUpTo(LinePool(p), MaxLines)}

\* the dicts the reader function can hold when the probe at position i of
\* the chain is parsed: each earlier probe failed or stored a pooled output
RECURSIVE HeldAt(_, _)
HeldAt(chain, i) ==
    IF i <= 1 THEN {<<>>}
    ELSE HeldAt(chain, i - 1)
         \cup {ParseInto(chain[i - 1], raw, d) :
                  d \in HeldAt(chain, i - 1), raw \in Outputs(chain[i - 1])}

\* only the probes of get_windows_software share a dict; every other parser
\* fills a dict of its own
Priors(p) ==
    LET chain == <<"wmic">> \o registry_paths \o <<"get_package", "appx">>
    IN  IF p \in Range(chain) THEN HeldAt(chain, IndexOf(chain, p))
        ELSE {<<>>}

\* lines without its i-th line
Remove(lines, i) ==
    SubSeq(lines, 1, i - 1) \o SubSeq(lines, i + 1, Len(lines))

ParseInit ==
    /\ system = "linux"
    /\ domain = "software"
    /\ pc = "parse"
    /\ pos = 0
    /\ enrich = 0
    /\ inflight = {}
    /\ spawned = <<>>
    /\ diag = <<>>
    /\ log = <<>>
    /\ last = NoProbe
    /\ local = <<>>
    /\ result = <<>>
    /\ ret = "pending"
    /\ summary = NoSummary
    /\ merge = NoMerge
    /\ \E p \in Parsers : \E raw \in Inputs(p), before \in Priors(p) :
          parse = [NoParse EXCEPT !.p = p, !.raw = raw, !.before = before]

\* the parser runs on the output: alone is what it stores into an empty
\* dict, after what the reader's dict holds once it has run
Parse ==
    /\ pc = "parse"
    /\ pc' = "parsed"
    /\ parse' = [parse EXCEPT
                    !.alone = ParseInto(parse.p, parse.raw, <<>>),
                    !.after = ParseInto(parse.p, parse.raw, parse.before)]
    /\ UNCHANGED <<system, domain, pos, enrich, inflight, spawned, diag, log,
                   last, local, result, ret, summary, merge>>

\* the parser runs on the same output without one of its lines
ParseWithout ==
    /\ pc = "parsed"
    /\ parse.raw.t = "text"
    /\ \E i \in DOMAIN parse.raw.lines :
          parse' = [parse EXCEPT
                       !.dropped = i,
                       !.rest = ParseInto(parse.p,
                                          Text(Remove(parse.raw.lines, i)),
                                          <<>>)]
    /\ pc' = "reparsed"
    /\ UNCHANGED <<system, domain, pos, enrich, inflight, spawned, diag, log,
                   last, local, result, ret, summary, merge>>

ParseNext == Parse \/ ParseWithout

ParseSpec == ParseInit /\ [][ParseNext]_vars

Parsed == pc \in {"parsed", "reparsed"}

(***************************************************************************)
(* C11: parsing is independent of the other probes.  As claimed: whatever  *)
(* the dict of the reader function holds from the probes that ran before,  *)
(* the records a parser stores from an output are the records it stores    *)
(* from that output into an empty dict.                                    *)
(***************************************************************************)
C11_ParseIndependent ==
    Parsed =>
        \A k \in Keys(parse.alone) :
            Has(parse.after, k) /\ Get(parse.after, k) = Get(parse.alone, k)

(***************************************************************************)
(* C11, as the code has it: every parser is a function of the output and   *)
(* of the dict it stores into.  The parsers that store unconditionally     *)
(* store exactly the records they parse from the output alone.  The        *)
(* guarded parsers of get_windows_software (registry, Get-Package, AppX)   *)
(* store only the records whose name no earlier probe stored, and leave    *)
(* the earlier record of every other name as it was.                       *)
(***************************************************************************)
C11_ParseIndependentUnlessGuarded ==
    Parsed =>
        /\ Keys(parse.after) = Keys(parse.before) \cup Keys(parse.alone)
        /\ \A k \in Keys(parse.alone) \ Keys(parse.before) :
              Get(parse.after, k) = Get(parse.alone, k)
        /\ parse.p \notin GuardedProbes =>
              \A k \in Keys(parse.alone) :
                  Get(parse.after, k) = Get(parse.alone, k)
        /\ parse.p \in GuardedProbes =>
              \A k \in Keys(parse.before) :
                  Get(parse.after, k) = Get(parse.before, k)

\* a guarded parser ran on an output that names one package an earlier probe
\* stored with another version, and one package no earlier probe stored
C11_Witness ==
    /\ pc = "parsed"
    /\ parse.p \in GuardedProbes
    /\ \E k \in Keys(parse.before) \cap Keys(parse.alone) :
          Get(parse.before, k) # Get(parse.alone, k)
    /\ Keys(parse.alone) \ Keys(parse.before) # {}

\* the records netstat stored, in order
NetstatRecords ==
    IF Has(result, "Listening Ports") THEN Get(result, "Listening Ports")
    ELSE <<>>

\* the tasklist lookups completed so far
Lookups == {i \in DOMAIN log : log[i].p = "tasklist"}

\* the step completes the lookup of record number enrich, and the lookup
\* failed: tasklist is absent, timed out, exited non-zero, or printed no row
\* after its first line
C12_LookupFailsStep ==
    /\ log' # log
    /\ last'.p = "tasklist"
    /\ \/ last'.out \in {"absent", "timeout", "nonzero"}
       \/ last'.out = "ok" /\ Len(last'.raw.lines) <= 1

C12_FailedLookupStep ==
    C12_LookupFailsStep =>
        /\ NetstatRecords[enrich][2].Process = Unknown
        /\ result' = result
        /\ ret' \in {"pending", "returned"}
        /\ diag' = diag

C12_EveryLookupAttempted ==
    (Dispatch(system) = "windows" /\ domain = "ports")
    => /\ ret \in {"pending", "returned"}
       /\ (Finished \/ (pc = "run" /\ TheChain[pos] = "powershell_tcp"))
          => Cardinality(Lookups)
                = Cardinality({j \in DOMAIN NetstatRecords :
                                  PidKnown(NetstatRecords[j][2].PID)})

(***************************************************************************)
(* C12: enrichment is best-effort.  When the process-name lookup of a port *)
(* record fails (tasklist absent, timed out, exited non-zero, or printed   *)
(* no data row), the record's Process stays "Unknown" and nothing else of  *)
(* the result changes, no message is printed and nothing is raised; and    *)
(* once the enrichment pass is over, one lookup has been made for every    *)
(* record with a known PID, whatever happened to the lookups before it.    *)
(***************************************************************************)
C12_EnrichmentBestEffort ==
    []C12_EveryLookupAttempted /\ [][C12_FailedLookupStep]_vars

\* the lookup of the first record failed and left its Process unset, and the
\* lookup of the second record was still made and named its process
C12_Witness ==
    /\ pc = "done"
    /\ Len(NetstatRecords) >= 2
    /\ PidKnown(NetstatRecords[1][2].PID)
    /\ NetstatRecords[1][2].Process = Unknown
    /\ NetstatRecords[2][2].Process = "sshd"
    /\ \E i \in Lookups : log[i].out = "raised"
    /\ \E i \in Lookups : log[i].out = "ok"

\* the records the PowerShell TCP probe stored, in order
TcpListeners ==
    IF Has(result, "TCP Listeners") THEN Get(result, "TCP Listeners") ELSE <<>>

\* a tasklist lookup of the PID was made during the call
LookedUp(pid) == \E i \in DOMAIN spawned : spawned[i] = "tasklist PID eq " \o pid

(***************************************************************************)
(* C13: in the Windows port inventory, when get_listening_ports has        *)
(* returned, a tasklist lookup with the record's PID was run for every     *)
(* record whose Process is "Unknown" and whose PID is known, in the        *)
(* category netstat filled and in the one the PowerShell TCP probe filled  *)
(* (whose PIDs are the JSON numbers of OwningProcess).                     *)
(***************************************************************************)
C13_EveryUnsetProcessLookedUp ==
    (Finished /\ Dispatch(system) = "windows" /\ domain = "ports"
     /\ ret = "returned")
    => /\ \A j \in DOMAIN NetstatRecords :
             (NetstatRecords[j][2].Process = Unknown
              /\ PidKnown(NetstatRecords[j][2].PID))
             => LookedUp(NetstatRecords[j][2].PID)
       /\ \A j \in DOMAIN TcpListeners :
             (TcpListeners[j][2].Process = Unknown
              /\ TcpListeners[j][2].PID # 0)
             => LookedUp(ToString(TcpListeners[j][2].PID))

\* str.isdecimal, for the PIDs of the model's hosts
IsDecimal(s) == s \in {ToString(n) : n \in 0..999}

WindowsJsonProbes ==
    Range(registry_paths)
    \cup {"get_package", "appx", "powershell_tcp", "wmi_bios", "wmi_baseboard",
          "wmi_netadapter", "wmi_diskdrive", "wmi_video"}

\* the probes whose category is one flat record of fields
SingleRecordProbes == {"wmi_bios", "wmi_baseboard"}

\* the field of an object that names its record
IdentityField(p) ==
    CASE p \in Range(registry_paths) -> "DisplayName"
      [] p \in {"get_package", "appx", "wmi_netadapter", "wmi_video"} -> "Name"
      [] p = "powershell_tcp" -> "LocalPort"
      [] p = "wmi_diskdrive" -> "Model"
      [] OTHER -> ""

\* the object is a JSON object that carries its identity field
HasIdentity(p, item) ==
    IsDict(item) /\ (p \in SingleRecordProbes \/ IdentityField(p) \in DOMAIN item)

\* the key under which the parser stores the object when it arrives bare
KeyOf(p, item) ==
    IF p \in SingleRecordProbes THEN item
    ELSE ParseInto(p, JDict(item), <<>>)[1][1]

\* how many records a category value holds
RecordCount(p, recs) ==
    IF p \in SingleRecordProbes THEN (IF recs = <<>> THEN 0 ELSE 1)
    ELSE Len(recs)

(***************************************************************************)
(* C15: every Windows JSON probe's parser handles both payload shapes.  A  *)
(* bare object with a valid identity yields exactly one record, and an     *)
(* array of k objects with k distinct valid identities yields k records.   *)
(***************************************************************************)
C15_BothShapes ==
    (Parsed /\ parse.p \in WindowsJsonProbes)
    => /\ (parse.raw.t = "dict" /\ HasIdentity(parse.p, parse.raw.obj))
          => RecordCount(parse.p, parse.alone) = 1
       /\ (/\ parse.raw.t = "list"
           /\ \A i \in DOMAIN parse.raw.items :
                 HasIdentity(parse.p, parse.raw.items[i])
           /\ \A i, j \in DOMAIN parse.raw.items :
                 i # j => KeyOf(parse.p, parse.raw.items[i])
                          # KeyOf(parse.p, parse.raw.items[j]))
          => RecordCount(parse.p, parse.alone) = Len(parse.raw.items)

\* the port probes whose output is a table of socket rows
SocketTables == {"netstat_win", "netstat_linux", "ss", "netstat_mac", "lsof"}

\* the column that holds the local address, and what joins address and port
AddressColumn(p) ==
    CASE p = "netstat_win" -> 2
      [] p = "ss" -> 5
      [] p = "lsof" -> 9
      [] OTHER -> 4

PortSeparator(p) == IF p = "netstat_mac" THEN "." ELSE ":"

\* int(port) raises ValueError on the row
BadPort(p, line) ==
    /\ Len(line) >= AddressColumn(p)
    /\ HasSep(line[AddressColumn(p)], PortSeparator(p))
    /\ ~IsInt(RSplit(line[AddressColumn(p)], PortSeparator(p))[2])

\* the line ParseWithout left out
DroppedLine == parse.raw.lines[parse.dropped]

(***************************************************************************)
(* C16: a numeric-conversion failure is record-local.  When the output of  *)
(* a port probe holds a row whose port token is not an integer, that row   *)
(* yields no record, and the records parsed from the output are those      *)
(* parsed from the same output without that row.                           *)
(***************************************************************************)
C16_BadPortIsRecordLocal ==
    (pc = "reparsed" /\ parse.p \in SocketTables
     /\ BadPort(parse.p, DroppedLine))
    => /\ LineInto(parse.p, DroppedLine, <<>>) = <<>>
       /\ parse.rest = parse.alone

\* the line-oriented parsers of the Linux software reader
LineParsers == {"dpkg", "rpm", "pacman", "apk", "zypper", "portage", "snap",
                "flatpak", "pip"}

\* the line does not match the parser's grammar: it stores no record
Malformed(p, line) == LineInto(p, line, <<>>) = <<>>

(***************************************************************************)
(* C17: a malformed line never fails a probe.  For each line-oriented      *)
(* parser of the Linux software reader, a line after the header that does  *)
(* not match the grammar is skipped, and the records parsed from the       *)
(* output are those parsed from the same output without that line.         *)
(***************************************************************************)
C17_MalformedLineSkipped ==
    (pc = "reparsed" /\ parse.p \in LineParsers
     /\ parse.dropped > HeaderLines(parse.p)
     /\ Malformed(parse.p, DroppedLine))
    => /\ parse.rest = parse.alone
       /\ ParseMessage(parse.p, parse.raw) = "none"

\* a malformed line stood between two lines that each gave a record, and
\* the output was parsed with it and without it
C17_Witness ==
    /\ pc = "reparsed"
    /\ parse.p \in LineParsers
    /\ Malformed(parse.p, DroppedLine)
    /\ \E i, j \in DOMAIN parse.raw.lines :
          /\ HeaderLines(parse.p) < i /\ i < parse.dropped /\ parse.dropped < j
          /\ ~Malformed(parse.p, parse.raw.lines[i])
          /\ ~Malformed(parse.p, parse.raw.lines[j])
    /\ Len(parse.alone) = 2
    /\ parse.rest = parse.alone

\* the Linux socket probes, and the row of each that shows a TCP socket
\* listening on 0.0.0.0:8080
LinuxSocketProbes == {"netstat_linux", "ss"}

ListenRow(p) ==
    IF p = "ss" THEN <<"tcp", "LISTEN", "0", "128", "0.0.0.0:8080", "0.0.0.0:*">>
    ELSE <<"tcp", "0", "0", "0.0.0.0:8080", "0.0.0.0:*", "LISTEN">>

\* the output holds that row and no other
OnlyListenRow ==
    /\ parse.p \in LinuxSocketProbes
    /\ parse.raw.lines = HeaderOf(parse.p) \o <<ListenRow(parse.p)>>

(***************************************************************************)
(* C18, as claimed: the Linux row of a socket listening on 0.0.0.0:8080    *)
(* yields the record "TCP:8080" with protocol "TCP", port 8080, address    *)
(* "0.0.0.0" and state "LISTENING", and the identity of every record is    *)
(* the upper-case protocol name, ':', and the port number.                 *)
(***************************************************************************)
C18_ListenRowUpperCase ==
    (Parsed /\ parse.p \in LinuxSocketProbes)
    => /\ OnlyListenRow
          => parse.alone = <<<<"TCP:8080",
                               PortRecord("TCP", 8080, "0.0.0.0", "LISTENING",
                                          Unknown, Unknown)>>>>
       /\ \A i \in DOMAIN parse.alone :
             parse.alone[i][1] = Upper(parse.alone[i][2].Protocol) \o ":"
                                 \o ToString(parse.alone[i][2].Port)

(***************************************************************************)
(* C18, as the code has it: the protocol is the first column as the tool   *)
(* prints it, and netstat and ss print it in lower case.  The row of a     *)
(* socket listening on 0.0.0.0:8080 yields the record "tcp:8080" with      *)
(* protocol "tcp", port 8080 (a number), address "0.0.0.0", state          *)
(* "LISTENING" and no PID or process; the identity of every record is its  *)
(* Protocol field, ':', and its Port, and its state is "LISTENING".        *)
(***************************************************************************)
C18_ListenRowAsPrinted ==
    (Parsed /\ parse.p \in LinuxSocketProbes)
    => /\ OnlyListenRow
          => parse.alone = <<<<"tcp:8080",
                               PortRecord("tcp", 8080, "0.0.0.0", "LISTENING",
                                          Unknown, Unknown)>>>>
       /\ \A i \in DOMAIN parse.alone :
             /\ parse.alone[i][1] = parse.alone[i][2].Protocol \o ":"
                                    \o ToString(parse.alone[i][2].Port)
             /\ \E j \in DOMAIN parse.raw.lines :
                   /\ parse.raw.lines[j] # <<>>
                   /\ parse.alone[i][2].Protocol = parse.raw.lines[j][1]
             /\ parse.alone[i][2].State = "LISTENING"

\* netstat printed the one row and it was parsed
C18_Witness ==
    /\ pc = "parsed"
    /\ parse.p = "netstat_linux"
    /\ OnlyListenRow
    /\ Keys(parse.alone) = {"tcp:8080"}

\* the line starts with "ii" and has at least three fields
InstalledLine(line) == Len(line) >= 3 /\ StartsWithIi(line[1])

\* the lines of the parsed output, by number
DpkgLines == parse.raw.lines

(***************************************************************************)
(* C19: for every dpkg output, each line that starts with "ii" and has at  *)
(* least three whitespace-separated fields yields the record second field  *)
(* -> third field, and every other line yields no record: the names        *)
(* stored are exactly the second fields of those lines, each with the      *)
(* third field of the last such line that names it, and leaving out any    *)
(* other line changes nothing.                                             *)
(***************************************************************************)
C19_DpkgInstalledLines ==
    (Parsed /\ parse.p = "dpkg")
    => /\ Keys(parse.alone)
             = {DpkgLines[i][2] : i \in {j \in DOMAIN DpkgLines :
                                            InstalledLine(DpkgLines[j])}}
       /\ \A i \in DOMAIN DpkgLines :
             InstalledLine(DpkgLines[i])
             => \/ Get(parse.alone, DpkgLines[i][2]) = DpkgLines[i][3]
                \/ \E j \in DOMAIN DpkgLines :
                      /\ j > i
                      /\ InstalledLine(DpkgLines[j])
                      /\ DpkgLines[j][2] = DpkgLines[i][2]
       /\ \A i \in DOMAIN parse.alone : Count(parse.alone, parse.alone[i][1]) = 1
       /\ (pc = "reparsed" /\ ~InstalledLine(DroppedLine))
          => parse.rest = parse.alone

\* dpkg printed the line of curl 7.81.0-1 and a line of a removed package
\* with three fields: one record, curl -> 7.81.0-1
C19_Witness ==
    /\ pc = "parsed"
    /\ parse.p = "dpkg"
    /\ \E i \in DOMAIN DpkgLines :
          DpkgLines[i] = <<"ii", "curl", "7.81.0-1", "amd64", "command", "line",
                           "tool">>
    /\ \E i \in DOMAIN DpkgLines :
          Len(DpkgLines[i]) >= 3 /\ ~InstalledLine(DpkgLines[i])
    /\ parse.alone = <<<<"curl", "7.81.0-1">>>>

\* the sum of the per-category counts of a software summary
RECURSIVE SumCounts(_, _)
SumCounts(counts, i) ==
    IF i > Len(counts) THEN 0 ELSE counts[i][2] + SumCounts(counts, i + 1)

(***************************************************************************)
(* C20: in every software summary the total is the number of merged        *)
(* records and every record is counted in exactly one category, so the     *)
(* per-category counts add up to the total.                                *)
(***************************************************************************)
C20_CategoriesPartitionTotal ==
    summary.kind = "software"
    => /\ summary.total_count = Len(result)
       /\ SumCounts(summary.counts, 1) = summary.total_count

\* second was merged into first by dict.update and gave merged
LastWriteWins(first, second, merged) ==
    /\ Keys(merged) = Keys(first) \cup Keys(second)
    /\ \A k \in Keys(second) : Get(merged, k) = Get(second, k)
    /\ \A k \in Keys(first) \ Keys(second) : Get(merged, k) = Get(first, k)
    /\ \A i \in DOMAIN merged : Count(merged, merged[i][1]) = 1

(***************************************************************************)
(* C21: the cross-source merge of get_installed_software is                *)
(* last-write-wins.  When two sources are merged by all_software.update,   *)
(* the final mapping holds every key of either source, each key of the     *)
(* source merged later with that source's value, and the other keys with   *)
(* the value of the source merged first.                                   *)
(***************************************************************************)
C21_LastWriteWins ==
    pc = "merged by update"
    => /\ LastWriteWins(merge.a, merge.b, merge.ab)
       /\ LastWriteWins(merge.b, merge.a, merge.ba)

\* two sources that report one package with different versions were merged
\* in both orders, and each order kept the version of the later source
C21_Witness ==
    /\ pc = "merged by update"
    /\ \E k \in CommonKeys(merge.a, merge.b) :
          /\ Get(merge.a, k) # Get(merge.b, k)
          /\ Get(merge.ab, k) = Get(merge.b, k)
          /\ Get(merge.ba, k) = Get(merge.a, k)
    /\ Keys(merge.a) \ Keys(merge.b) # {}

\* the probes whose records get_listening_ports returns
PortParsers == SocketTables \cup {"powershell_tcp"}

(***************************************************************************)
(* C22, as claimed: every record of every category that                    *)
(* get_listening_ports returns has the State "LISTENING", whatever the     *)
(* platform and the probe output.                                          *)
(***************************************************************************)
C22_EveryStateListening ==
    (Parsed /\ parse.p \in PortParsers)
    => \A i \in DOMAIN parse.alone : parse.alone[i][2].State = "LISTENING"

(***************************************************************************)
(* C22, as the code has it: the Windows netstat probe also accepts the     *)
(* rows of established connections and stores the state column as          *)
(* printed, so the State of its records is "LISTENING" or "ESTABLISHED";   *)
(* the records of every other probe have the State "LISTENING".            *)
(***************************************************************************)
C22_StateListeningOrEstablished ==
    (Parsed /\ parse.p \in PortParsers)
    => \A i \in DOMAIN parse.alone :
          IF parse.p = "netstat_win"
          THEN /\ parse.alone[i][2].State \in {"LISTENING", "ESTABLISHED"}
               /\ \E j \in DOMAIN parse.raw.lines :
                     /\ Len(parse.raw.lines[j]) >= 5
                     /\ parse.raw.lines[j][4] = parse.alone[i][2].State
                     /\ parse.raw.lines[j][1] \o ":"
                        \o RSplit(parse.raw.lines[j][2], ":")[2]
                           = parse.alone[i][1]
          ELSE parse.alone[i][2].State = "LISTENING"

\* netstat -ano listed a listening socket and an established connection, and
\* both were stored
C22_Witness ==
    /\ pc = "parsed"
    /\ parse.p = "netstat_win"
    /\ \E i \in DOMAIN parse.alone : parse.alone[i][2].State = "ESTABLISHED"
    /\ \E i \in DOMAIN parse.alone : parse.alone[i][2].State = "LISTENING"

\* the line opens the block of a device, of whatever class
OpensBlock(line) == Len(line) = 3 /\ line[1] = "dev"

\* the line opens the block of a network device called name
OpensNetworkBlock(line, name) ==
    /\ OpensBlock(line)
    /\ line[2] \in {"Ethernet controller", "Network controller"}
    /\ line[3] = name

\* the drivers named by the "Kernel driver in use:" lines inside the block
\* of the network device called name (its last block when the listing
\* shows two devices with one description, each block starting a new record)
OwnDrivers(lines, name) ==
    {lines[j][2] : j \in {k \in DOMAIN lines :
        /\ Len(lines[k]) = 2 /\ lines[k][1] = "driver"
        /\ \E i \in 1..(k - 1) :
              /\ OpensNetworkBlock(lines[i], name)
              /\ \A m \in (i + 1)..Len(lines) :
                    ~OpensNetworkBlock(lines[m], name)
              /\ \A m \in (i + 1)..k : ~OpensBlock(lines[m])}}

(***************************************************************************)
(* C23: in the lspci parser the Driver of a network device comes from a    *)
(* "Kernel driver in use:" line of that device's own block: the driver     *)
(* line of a later device of another class is never attributed to it, and  *)
(* a network device whose block has no driver line has no Driver field.    *)
(***************************************************************************)
C23_DriverFromOwnBlock ==
    (Parsed /\ parse.p = "lspci")
    => \A i \in DOMAIN parse.alone :
          LET name == parse.alone[i][1]
              fields == parse.alone[i][2]
          IN  IF Has(fields, "Driver")
              THEN Get(fields, "Driver") \in OwnDrivers(parse.raw.lines, name)
              ELSE OwnDrivers(parse.raw.lines, name) = {}

\* line j is the key k and the line after it holds a string value
ValuedKey(lines, j, k) == IsKey(lines[j], k) /\ StringAfter(lines, j)

\* the application name pending when line j is scanned: the value of the
\* last _name key before j, unless a version key with a value came after it
PendingAt(lines, j) ==
    LET prior == {i \in 1..(j - 1) : \/ ValuedKey(lines, i, "_name")
                                     \/ ValuedKey(lines, i, "version")}
    IN  IF prior = {} THEN None
        ELSE LET m == CHOOSE i \in prior : \A k \in prior : k <= i
             IN  IF IsKey(lines[m], "_name") THEN lines[m + 1][2] ELSE None

\* the version keys met while a name is pending
MetPending(lines) ==
    {j \in DOMAIN lines : IsKey(lines[j], "version") /\ PendingAt(lines, j) # None}

\* those of them that are followed by a string value
Emitting(lines) == {j \in MetPending(lines) : StringAfter(lines, j)}

InEnrichment ==
    /\ Dispatch(system) = "windows" /\ domain = "ports"
    /\ pc = "run" /\ TheChain[pos] = "tasklist"

\* the category names of a result, in order
CategoryNames(res) == [c \in DOMAIN res |-> res[c][1]]

\* two port records agree on every field but Process
SameButProcess(a, b) ==
    /\ a.Protocol = b.Protocol /\ a.Port = b.Port
    /\ a.LocalAddress = b.LocalAddress
    /\ a.State = b.State /\ a.PID = b.PID

C25_EnrichmentStepFrame ==
    InEnrichment =>
        /\ CategoryNames(result') = CategoryNames(result)
        /\ \A c \in DOMAIN result :
              result[c][1] # "Listening Ports" => result'[c] = result[c]
        /\ Len(NetstatRecords') = Len(NetstatRecords)
        /\ \A j \in DOMAIN NetstatRecords :
              /\ NetstatRecords'[j][1] = NetstatRecords[j][1]
              /\ SameButProcess(NetstatRecords'[j][2], NetstatRecords[j][2])

(***************************************************************************)
(* C25: the Windows enrichment pass changes nothing but the Process field  *)
(* of the records of 'Listening Ports': every step of the tasklist loop    *)
(* leaves the categories, the identities and their order, and the          *)
(* Protocol, Port, Local Address, State and PID of every record as they    *)
(* were, whether the lookup succeeds or fails.                             *)
(***************************************************************************)
C25_OnlyProcessChanges == [][C25_EnrichmentStepFrame]_vars

\* the pass is over: one lookup named a process and the lookup of another
\* record with a known PID failed
C25_Witness ==
    /\ Dispatch(system) = "windows" /\ domain = "ports" /\ pc = "done"
    /\ \E j \in DOMAIN NetstatRecords : NetstatRecords[j][2].Process = "sshd"
    /\ \E j \in DOMAIN NetstatRecords :
          /\ PidKnown(NetstatRecords[j][2].PID)
          /\ NetstatRecords[j][2].Process = Unknown

\* the records of a result, each named by its category and its identity
Placed(res) ==
    UNION {{<<res[c][1], res[c][2][j][1]>> : j \in DOMAIN res[c][2]} :
           c \in DOMAIN res}

\* the identities of a result, over all categories
AllIdentities(res) == UNION {Keys(res[c][2]) : c \in DOMAIN res}

(***************************************************************************)
(* C26: total_ports of get_port_summary is the sum of the sizes of the     *)
(* categories, an identity two probes reported being counted once for each *)
(* category it is in; and tcp_ports + udp_ports never exceeds total_ports. *)
(***************************************************************************)
C26_TotalIsSumOfCategories ==
    summary.kind = "ports"
    => /\ summary.total_ports = Cardinality(Placed(result))
       /\ summary.tcp_ports + summary.udp_ports <= summary.total_ports

\* a summary over a result in which two categories hold one identity
C26_Witness ==
    /\ summary.kind = "ports"
    /\ Cardinality(AllIdentities(result)) < Cardinality(Placed(result))
    /\ summary.tcp_ports > 0

\* the probes that fill a category (the tasklist lookups fill none)
CategoryProbes == {i \in DOMAIN log : log[i].p # "tasklist"}

(***************************************************************************)
(* C27: a category is in the result of get_listening_ports or              *)
(* get_firmware_info only if the probe behind it produced a record: on a   *)
(* supported platform no category maps to an empty mapping, and the result *)
(* of a call in which every probe failed is the empty mapping.             *)
(***************************************************************************)
C27_NoEmptyCategory ==
    (Supported /\ domain \in {"ports", "firmware"})
    => /\ \A c \in DOMAIN result :
             /\ result[c][2] # <<>>
             /\ \E i \in CategoryProbes :
                   /\ Category(log[i].p) = result[c][1]
                   /\ log[i].out = "ok" /\ log[i].n > 0
       /\ (Finished /\ \A i \in CategoryProbes : log[i].out # "ok")
          => result = <<>>

\* a returned result holds a category while another probe of the call ran to
\* the end and found no record, so that its category is absent
C27_Witness ==
    /\ Supported /\ domain \in {"ports", "firmware"} /\ Finished
    /\ result # <<>>
    /\ \E i \in CategoryProbes :
          /\ log[i].out = "ok" /\ log[i].n = 0
          /\ ~Has(result, Category(log[i].p))

\* the lines of netstat -ano the loop of get_windows_ports visits
WinRows == Drop(parse.raw.lines, HeaderLines("netstat_win"))

\* the line passes every test of the loop body
WinAccepted(line) ==
    /\ InLine(line, "LISTENING") \/ InLine(line, "ESTABLISHED")
    /\ Len(line) >= 5
    /\ HasSep(line[2], ":")
    /\ IsInt(RSplit(line[2], ":")[2])

\* the "protocol:port" key of an accepted line
WinKey(line) == line[1] \o ":" \o ToString(IntOf(RSplit(line[2], ":")[2]))

\* the record built from an accepted line
WinRecord(line) ==
    [Protocol |-> line[1], Port |-> IntOf(RSplit(line[2], ":")[2]),
     LocalAddress |-> RSplit(line[2], ":")[1], State |-> line[4],
     PID |-> IF line[5] = "0" THEN Unknown ELSE line[5], Process |-> Unknown]

\* row i is the first accepted row of its key
FirstOfKey(rows, i) ==
    /\ WinAccepted(rows[i])
    /\ \A j \in 1..(i - 1) :
          WinAccepted(rows[j]) => WinKey(rows[j]) # WinKey(rows[i])

(***************************************************************************)
(* C28: within the Windows netstat probe, when several accepted lines map  *)
(* to one "protocol:port" key, the record built from the first of them is  *)
(* kept and the later lines change none of its fields.                     *)
(***************************************************************************)
C28_FirstLineOfKeyKept ==
    (Parsed /\ parse.p = "netstat_win")
    => \A i \in DOMAIN WinRows :
          FirstOfKey(WinRows, i)
          => /\ Has(parse.alone, WinKey(WinRows[i]))
             /\ Get(parse.alone, WinKey(WinRows[i])) = WinRecord(WinRows[i])

\* two accepted rows of one key that would give different records were read
C28_Witness ==
    /\ Parsed /\ parse.p = "netstat_win"
    /\ \E i, j \in DOMAIN WinRows :
          /\ i < j
          /\ FirstOfKey(WinRows, i)
          /\ WinAccepted(WinRows[j])
          /\ WinKey(WinRows[j]) = WinKey(WinRows[i])
          /\ WinRecord(WinRows[j]) # WinRecord(WinRows[i])
          /\ Get(parse.alone, WinKey(WinRows[i])) = WinRecord(WinRows[i])

\* the categories that hold the fields of one device, not a mapping of devices
SingleRecordCategories == {"BIOS/UEFI", "Motherboard", "System Firmware"}

\* the firmware devices of a result, each named by its category and, in a
\* category of several devices, its identity
Devices(res) ==
    UNION {IF res[c][1] \in SingleRecordCategories
           THEN {<<res[c][1], res[c][1]>>}
           ELSE {<<res[c][1], res[c][2][j][1]>> : j \in DOMAIN res[c][2]} :
           c \in DOMAIN res}

(***************************************************************************)
(* C29: total_components of get_firmware_summary is the number of firmware *)
(* devices in the result: every device record, the single BIOS/UEFI,       *)
(* Motherboard or System Firmware record included, counts as one           *)
(* component however many fields it has.                                   *)
(***************************************************************************)
C29_TotalIsDeviceCount ==
    summary.kind = "firmware"
    => summary.total_components = Cardinality(Devices(result))

====
